---------------------------- MODULE Spec2Model ----------------------------
(***************************************************************************)
(* Annotation managers, shape resize/move state machines and the tactical  *)
(* association layer of the football tactics board                         *)
(* (annotation/annotation.py, main.py, tactical_simulation.py).            *)
(*                                                                         *)
(* Real-valued scene coordinates are fixed-point integers: one scene unit  *)
(* is Scale thousandths.  Products and quotients are rounded to the        *)
(* nearest thousandth, which stands for the rounding of the float          *)
(* arithmetic of the source.                                               *)
(***************************************************************************)
EXTENDS Integers, Sequences, FiniteSets, TLC

VARIABLES
    current_tool,        \* MainWindow.current_tool
    simulation_mode,     \* MainWindow.simulation_mode
    annotation_manager,  \* the ArrowAnnotationManager
    arrow_items,         \* every CustomArrowItem ever committed; index = identity
    zone_manager,        \* the three zone managers, by kind
    zone_items,          \* every zone item ever committed; index = identity
    tactical_manager,    \* the TacticalSimulationManager
    handle_presses,      \* resize handles pressed so far
    xy_objects,          \* the tracking data loaded at start-up
    trajectory_manager,  \* the TrajectoryManager
    last                 \* the last call made: its name, arguments and result

vars == <<current_tool, simulation_mode, annotation_manager, arrow_items,
          zone_manager, zone_items, tactical_manager, handle_presses,
          xy_objects, trajectory_manager, last>>

-----------------------------------------------------------------------------
(* Fixed-point arithmetic *)

Scale == 1000

Abs(a) == IF a < 0 THEN -a ELSE a
Max(a, b) == IF a >= b THEN a ELSE b
Min(a, b) == IF a <= b THEN a ELSE b

\* nearest integer to n / d, d > 0
RoundDiv(n, d) == (2 * n + d) \div (2 * d)

\* a * b and a / b on fixed-point values
Mul(a, b) == RoundDiv(a * b, Scale)
Div(a, b) == IF b > 0 THEN RoundDiv(a * Scale, b) ELSE RoundDiv(-(a * Scale), -b)

RECURSIVE ISqrtBetween(_, _, _)
\* largest r in lo..hi with r * r <= n (bisection)
ISqrtBetween(n, lo, hi) ==
    IF lo >= hi THEN lo
    ELSE LET mid == (lo + hi + 1) \div 2
         IN  IF mid * mid <= n THEN ISqrtBetween(n, mid, hi)
                               ELSE ISqrtBetween(n, lo, mid - 1)

\* math.sqrt on a fixed-point value (of a non-negative argument)
Sqrt(a) == IF a <= 0 THEN 0 ELSE ISqrtBetween(a * Scale, 0, 46340)

\* math.hypot
Hypot(dx, dy) == Sqrt(Mul(dx, dx) + Mul(dy, dy))

Point(x, y) == [x |-> x, y |-> y]
PAdd(p, q) == Point(p.x + q.x, p.y + q.y)
PSub(p, q) == Point(p.x - q.x, p.y - q.y)

\* QRectF(x, y, w, h)
Rect(x, y, w, h) == [x |-> x, y |-> y, w |-> w, h |-> h]
\* QRectF(p, q).normalized()
NormalizedRect(p, q) == Rect(Min(p.x, q.x), Min(p.y, q.y), Abs(q.x - p.x), Abs(q.y - p.y))
\* QRectF.center()
Center(r) == Point(r.x + r.w \div 2, r.y + r.h \div 2)
\* truth value of a QRectF: QRectF.isValid()
IsValidRect(r) == r.w > 0 /\ r.h > 0

\* Optional values are sequences of length 0 (None) or 1
None == <<>>
Some(v) == <<v>>
IsSome(o) == Len(o) > 0
The(o) == o[1]

SeqToSet(s) == {s[i] : i \in 1..Len(s)}
RemoveFirst(s, e) ==
    IF e \notin SeqToSet(s) THEN s
    ELSE LET i == CHOOSE j \in 1..Len(s) : s[j] = e /\ \A k \in 1..(j - 1) : s[k] # e
         IN  SubSeq(s, 1, i - 1) \o SubSeq(s, i + 1, Len(s))

-----------------------------------------------------------------------------
(* Program constants *)

DEFAULT_ARROW_COLOR == "#000000"
DEFAULT_ZONE_COLOR == "#000000"
DEFAULT_ZONE_WIDTH == 1
DEFAULT_ZONE_ALPHA == 0
ANNOTATION_ARROW_BASE_WIDTH_VALUE == 1

Tools == {"select", "arrow", "curve", "rectangle_zone", "ellipse_zone", "cone_zone"}
ZoneKinds == {"rectangle", "ellipse", "cone"}
ZoneTool(k) == IF k = "rectangle" THEN "rectangle_zone"
               ELSE IF k = "ellipse" THEN "ellipse_zone" ELSE "cone_zone"
ArrowStyles == {"solid", "dotted", "zigzag"}
Corners == {"top_left", "top_right", "bottom_left", "bottom_right"}

-----------------------------------------------------------------------------
(* The state the methods work on: one record holding every object, so that *)
(* a handler is the composition of the method calls it makes.              *)

World == [current_tool    |-> current_tool,
          simulation_mode |-> simulation_mode,
          am              |-> annotation_manager,
          arrow_items     |-> arrow_items,
          zm              |-> zone_manager,
          zone_items      |-> zone_items,
          tm              |-> tactical_manager,
          trm             |-> trajectory_manager,
          handle_presses  |-> handle_presses,
          ret             |-> "None",
          ret_item        |-> 0]

\* the last call: its name, the manager kind, the shape, the handle corner,
\* the position, the mode/style/player argument and what it returned
\* with the number of points the manager of that kind had buffered and the
\* shape it had selected when the call was made
Call(op, kind, item, corner, pos, arg, ret) ==
    [op |-> op, kind |-> kind, item |-> item, corner |-> corner,
     pos |-> pos, arg |-> arg, ret |-> ret,
     points |-> IF kind = "arrow" THEN Len(annotation_manager.arrow_points)
                ELSE IF kind \in {"rectangle", "ellipse", "cone"}
                THEN Len(zone_manager[kind].zone_points)
                ELSE 0,
     selected |-> IF kind = "arrow" THEN annotation_manager.selected_arrow
                  ELSE IF kind \in {"rectangle", "ellipse", "cone"}
                  THEN zone_manager[kind].selected_zone
                  ELSE 0]

NoPos == Point(0, 0)

Commit(w, call) ==
    /\ current_tool' = w.current_tool
    /\ simulation_mode' = w.simulation_mode
    /\ annotation_manager' = w.am
    /\ arrow_items' = w.arrow_items
    /\ zone_manager' = w.zm
    /\ zone_items' = w.zone_items
    /\ tactical_manager' = w.tm
    /\ trajectory_manager' = w.trm
    /\ handle_presses' = w.handle_presses
    /\ xy_objects' = xy_objects
    /\ last' = call

-----------------------------------------------------------------------------
(* CustomArrowItem *)

CustomArrowItem(pts, color, width, style) ==
    [arrow_points      |-> pts,
     arrow_color       |-> color,
     arrow_width       |-> width,
     arrow_style       |-> style,
     selected_state    |-> FALSE,
     resize_handles    |-> TRUE,     \* the handle dict is populated
     handles_visible   |-> FALSE,
     handles_in_scene  |-> FALSE,
     is_resizing       |-> FALSE,
     resize_corner     |-> "None",
     resize_start_pos  |-> None,
     original_points   |-> None,
     movable           |-> TRUE,     \* ItemIsMovable
     pos               |-> Point(0, 0),
     in_scene          |-> FALSE,
     deleted           |-> FALSE]    \* the wrapped C++ object is gone

\* CustomArrowItem.setSelected
Arrow_setSelected(item, selected) ==
    [item EXCEPT !.selected_state = selected,
                 !.handles_visible = selected /\ item.resize_handles,
                 !.handles_in_scene =
                     IF selected /\ item.resize_handles /\ item.in_scene
                     THEN TRUE ELSE item.handles_in_scene]

-----------------------------------------------------------------------------
(* ArrowAnnotationManager *)

ArrowAnnotationManager ==
    [arrows         |-> <<>>,
     arrow_points   |-> <<>>,
     arrow_color    |-> DEFAULT_ARROW_COLOR,
     arrow_width    |-> ANNOTATION_ARROW_BASE_WIDTH_VALUE,
     arrow_style    |-> "solid",
     arrow_curved   |-> FALSE,
     arrow_preview  |-> None,
     selected_arrow |-> 0,
     current_mode   |-> "select",
     tactical_mode  |-> FALSE]

\* add_point without its limit of two points in non-curved mode
Arrow_add_point_unlimited(w, pos) == [w EXCEPT !.am.arrow_points = Append(@, pos)]

Arrow_add_point(w, pos) ==
    IF ~w.am.arrow_curved
    THEN IF Len(w.am.arrow_points) < 2
         THEN [w EXCEPT !.am.arrow_points = Append(@, pos)]
         ELSE w
    ELSE [w EXCEPT !.am.arrow_points = Append(@, pos)]

remove_arrow_preview(w) == [w EXCEPT !.am.arrow_preview = None]

\* clear_selection that keeps the arrows whose setSelected raised
Arrow_clear_selection_keeping(w) ==
    [w EXCEPT !.arrow_items =
                  [a \in DOMAIN w.arrow_items |->
                      IF a \in SeqToSet(w.am.arrows) /\ ~w.arrow_items[a].deleted
                      THEN Arrow_setSelected(w.arrow_items[a], FALSE)
                      ELSE w.arrow_items[a]],
              !.am.selected_arrow = 0]

\* setSelected(False) of an arrow whose wrapped object is gone assigns
\* _selected_state and then raises
Arrow_clear_selection(w) ==
    LET Alive(a) == ~w.arrow_items[a].deleted
        kept == SelectSeq(w.am.arrows, Alive)
    IN  [w EXCEPT !.arrow_items =
                      [a \in DOMAIN w.arrow_items |->
                          IF a \in SeqToSet(kept)
                          THEN Arrow_setSelected(w.arrow_items[a], FALSE)
                          ELSE IF a \in SeqToSet(w.am.arrows)
                          THEN [w.arrow_items[a] EXCEPT !.selected_state = FALSE]
                          ELSE w.arrow_items[a]],
                  !.am.arrows = kept,
                  !.am.selected_arrow = 0]

Arrow_set_mode(w, mode) ==
    LET w1 == [w EXCEPT !.am.arrow_curved = (mode = "curve"),
                        !.am.arrow_points = <<>>]
        w2 == Arrow_clear_selection(remove_arrow_preview(w1))
    IN  [w2 EXCEPT !.am.current_mode = mode]

\* select_arrow without clear_selection
select_arrow_keeping(w, arrow) ==
    IF arrow # 0
    THEN [w EXCEPT !.am.selected_arrow = arrow,
                   !.arrow_items[arrow] = Arrow_setSelected(@, TRUE)]
    ELSE [w EXCEPT !.am.selected_arrow = arrow]

select_arrow(w, arrow) ==
    LET w1 == [Arrow_clear_selection(w) EXCEPT !.am.selected_arrow = arrow]
    IN  IF arrow # 0
        THEN [w1 EXCEPT !.arrow_items[arrow] = Arrow_setSelected(@, TRUE)]
        ELSE w1

\* draw_arrow: the item built and added to the scene, or None
draw_arrow(w, pts, preview) ==
    IF Len(pts) < 2 THEN None
    ELSE Some([CustomArrowItem(pts,
                               w.am.arrow_color,
                               w.am.arrow_width, w.am.arrow_style)
               EXCEPT !.in_scene = TRUE])

Arrow_update_preview(w, pos) ==
    IF Len(w.am.arrow_points) = 0 THEN w
    ELSE LET pts == IF ~w.am.arrow_curved
                    THEN <<w.am.arrow_points[1], pos>>
                    ELSE Append(w.am.arrow_points, pos)
         IN  [remove_arrow_preview(w) EXCEPT !.am.arrow_preview = draw_arrow(w, pts, TRUE)]

\* finish_arrow without its guard on the number of points
finish_arrow_unguarded(w) ==
    LET id == Len(w.arrow_items) + 1
        item == [CustomArrowItem(w.am.arrow_points, w.am.arrow_color,
                                 w.am.arrow_width, w.am.arrow_style)
                 EXCEPT !.in_scene = TRUE]
    IN  [remove_arrow_preview([w EXCEPT !.arrow_items = Append(@, item),
                                        !.am.arrows = Append(@, id),
                                        !.am.arrow_points = <<>>])
         EXCEPT !.ret = "arrow", !.ret_item = id]

finish_arrow(w) ==
    IF Len(w.am.arrow_points) < 2
    THEN [remove_arrow_preview([w EXCEPT !.am.arrow_points = <<>>])
          EXCEPT !.ret = "None", !.ret_item = 0]
    ELSE LET arrow_item == draw_arrow(w, w.am.arrow_points, FALSE)
             id == Len(w.arrow_items) + 1
             w1 == IF IsSome(arrow_item)
                   THEN [w EXCEPT !.arrow_items = Append(@, The(arrow_item)),
                                  !.am.arrows = Append(@, id)]
                   ELSE w
         IN  [remove_arrow_preview([w1 EXCEPT !.am.arrow_points = <<>>])
              EXCEPT !.ret = IF IsSome(arrow_item) THEN "arrow" ELSE "None",
                     !.ret_item = IF IsSome(arrow_item) THEN id ELSE 0]

cancel_arrow(w) == remove_arrow_preview([w EXCEPT !.am.arrow_points = <<>>])

try_finish_arrow(w) ==
    IF Len(w.am.arrow_points) >= 2
    THEN [finish_arrow(w) EXCEPT !.ret = "None", !.ret_item = 0]
    ELSE cancel_arrow(w)

-----------------------------------------------------------------------------
(* Zone items: RectangleZoneItem, EllipseZoneItem, ConeZoneItem *)

ZoneItem(kind, rect, apex, direction_point, color, width, style, fill_alpha, spread, preview) ==
    [kind              |-> kind,
     rect              |-> rect,               \* rectangle and ellipse
     apex              |-> apex,               \* cone
     direction_point   |-> direction_point,    \* cone
     radius            |-> IF kind = "cone"
                           THEN Max(Scale, Hypot(direction_point.x - apex.x,
                                                 direction_point.y - apex.y))
                           ELSE 0,
     spread_deg        |-> spread,
     zone_color        |-> color,
     zone_width        |-> width,
     zone_style        |-> style,
     zone_fill_alpha   |-> fill_alpha,
     rotation_angle    |-> 0,
     selection_rect    |-> Rect(0, 0, 0, 0),   \* the rect of _selection_rect
     is_preview        |-> preview,
     selected          |-> FALSE,
     resize_handles    |-> TRUE,
     handles_visible   |-> FALSE,
     handles_in_scene  |-> FALSE,
     is_resizing       |-> FALSE,
     resize_corner     |-> "None",
     resize_start_pos  |-> None,
     original_rect     |-> None,
     movable           |-> TRUE,
     pos               |-> Point(0, 0),
     in_scene          |-> FALSE,
     deleted           |-> FALSE]

\* _update_selection_rect of the rectangle and ellipse items: the outline
\* takes the bounds of the zone as it is rotated now
RECURSIVE Zone_selection_bounds(_)
Zone_update_selection_rect(item) ==
    IF item.kind = "cone" THEN item
    ELSE [item EXCEPT !.selection_rect = Zone_selection_bounds(item)]

\* setSelected of the three zone items; the cone only toggles its outline
Zone_setSelected(item, selected) ==
    IF item.kind = "cone"
    THEN [item EXCEPT !.selected = selected]
    ELSE [(IF selected THEN Zone_update_selection_rect(item) ELSE item)
          EXCEPT !.selected = selected,
                      !.handles_visible = selected /\ item.resize_handles,
                      !.handles_in_scene =
                          IF selected /\ item.resize_handles /\ item.in_scene
                          THEN TRUE ELSE item.handles_in_scene]

\* cleanup_handles of the rectangle and ellipse items
cleanup_handles(item) ==
    [item EXCEPT !.resize_handles = FALSE,
                 !.handles_in_scene = FALSE,
                 !.handles_visible = FALSE]

-----------------------------------------------------------------------------
(* RectangleZoneManager, EllipseZoneManager, ConeZoneManager *)

ZoneManager(kind) ==
    [zones           |-> <<>>,
     zone_points     |-> <<>>,
     zone_color      |-> DEFAULT_ZONE_COLOR,
     zone_width      |-> DEFAULT_ZONE_WIDTH,
     zone_style      |-> "solid",
     zone_fill_alpha |-> DEFAULT_ZONE_ALPHA,
     zone_spread_deg |-> IF kind = "cone" THEN 60 ELSE 0,
     zone_preview    |-> None,
     selected_zone   |-> 0,
     current_mode    |-> "select"]

remove_zone_preview(w, k) == [w EXCEPT !.zm[k].zone_preview = None]

Zone_clear_selection(w, k) ==
    LET Alive(z) == ~w.zone_items[z].deleted
        kept == SelectSeq(w.zm[k].zones, Alive)
    IN  [w EXCEPT !.zone_items =
                      [z \in DOMAIN w.zone_items |->
                          IF z \in SeqToSet(kept)
                          THEN Zone_setSelected(w.zone_items[z], FALSE)
                          ELSE w.zone_items[z]],
                  !.zm[k].zones = kept,
                  !.zm[k].selected_zone = 0]

Zone_set_mode(w, k, mode) ==
    LET w1 == [w EXCEPT !.zm[k].current_mode = mode,
                        !.zm[k].zone_points = <<>>]
    IN  Zone_clear_selection(remove_zone_preview(w1, k), k)

select_zone(w, k, zone) ==
    LET w1 == [Zone_clear_selection(w, k) EXCEPT !.zm[k].selected_zone = zone]
    IN  IF zone # 0
        THEN [w1 EXCEPT !.zone_items[zone] = Zone_setSelected(@, TRUE)]
        ELSE w1

Zone_add_point(w, k, pos) ==
    IF Len(w.zm[k].zone_points) < 2
    THEN [w EXCEPT !.zm[k].zone_points = Append(@, pos)]
    ELSE w

\* the item the manager of kind k builds from its first point and a second one
BuildZone(w, k, first, second, preview) ==
    LET m == w.zm[k]
        rect == IF k = "rectangle" THEN NormalizedRect(first, second)
                ELSE IF k = "ellipse"
                THEN LET radius_x == Abs(second.x - first.x)
                         radius_y == Abs(second.y - first.y)
                     IN  Rect(first.x - radius_x, first.y - radius_y,
                              radius_x * 2, radius_y * 2)
                ELSE Rect(0, 0, 0, 0)
    IN  [ZoneItem(k, rect, first, second, m.zone_color, m.zone_width,
                  m.zone_style, m.zone_fill_alpha, m.zone_spread_deg, preview)
         EXCEPT !.in_scene = TRUE]

Zone_update_preview(w, k, pos) ==
    IF Len(w.zm[k].zone_points) = 0 THEN w
    ELSE [remove_zone_preview(w, k) EXCEPT
             !.zm[k].zone_preview = Some(BuildZone(w, k, w.zm[k].zone_points[1], pos, TRUE))]

finish_zone(w, k) ==
    IF Len(w.zm[k].zone_points) < 2
    THEN [w EXCEPT !.ret = "False"]
    ELSE LET w1 == remove_zone_preview(w, k)
             zone == BuildZone(w, k, w.zm[k].zone_points[1], w.zm[k].zone_points[2], FALSE)
             id == Len(w.zone_items) + 1
         IN  [w1 EXCEPT !.zone_items = Append(@, zone),
                        !.zm[k].zones = Append(@, id),
                        !.zm[k].zone_points = <<>>,
                        !.ret = "True"]

cancel_zone(w, k) == [remove_zone_preview(w, k) EXCEPT !.zm[k].zone_points = <<>>]

\* delete_selected_zone without the call of cleanup_handles
delete_selected_zone_keeping_handles(w, k) ==
    LET zone == w.zm[k].selected_zone
        w1 == IF zone # 0
              THEN [w EXCEPT !.zone_items[zone].in_scene = FALSE,
                             !.zm[k].zones = RemoveFirst(@, zone)]
              ELSE w
    IN  Zone_clear_selection(w1, k)

delete_selected_zone(w, k) ==
    LET zone == w.zm[k].selected_zone
        w1 == IF zone # 0
              THEN [w EXCEPT !.zone_items[zone] =
                                 [(IF k = "cone" THEN @ ELSE cleanup_handles(@))
                                  EXCEPT !.in_scene = FALSE],
                             !.zm[k].zones = RemoveFirst(@, zone)]
              ELSE w
    IN  Zone_clear_selection(w1, k)

-----------------------------------------------------------------------------
(* TacticalSimulationManager *)

HomeIds == <<"H1">>
AwayIds == <<"A1">>
Players == SeqToSet(HomeIds) \cup SeqToSet(AwayIds)
NoPlayer == ""

EmptyDict == [x \in {} |-> NoPlayer]
DictSet(d, k, v) == [x \in (DOMAIN d) \cup {k} |-> IF x = k THEN v ELSE d[x]]
DictDel(d, k) == [x \in (DOMAIN d) \ {k} |-> d[x]]

TacticalSimulationManager ==
    [tactical_arrows       |-> <<>>,
     ball_possession_chain |-> <<>>,
     player_associations   |-> EmptyDict,
     pass_receivers        |-> EmptyDict,
     simulated_player_positions |-> EmptyDict,
     simulated_ball_positions   |-> <<>>]

\* the action type read from the pen of the arrow's line: dashed or not
get_action_type_by_pen(arrow) ==
    IF arrow.arrow_style = "dotted" THEN "run" ELSE "pass"

get_action_type(arrow) ==
    IF arrow.arrow_style = "dotted" THEN "run"
    ELSE IF arrow.arrow_style = "zigzag" THEN "dribble"
    ELSE "pass"

RECURSIVE PolylineLength(_, _)
PolylineLength(points, i) ==
    IF i >= Len(points) THEN 0
    ELSE Hypot(points[i + 1].x - points[i].x, points[i + 1].y - points[i].y)
         + PolylineLength(points, i + 1)

calculate_arrow_length(points) ==
    IF Len(points) < 2 THEN 0 ELSE PolylineLength(points, 1)

associate_arrow_with_player(w, arrow, player_id, current_frame) ==
    LET item == w.arrow_items[arrow]
        tactical_arrow ==
            [arrow_id         |-> arrow,
             player_id        |-> player_id,
             action_type      |-> get_action_type(item),
             start_pos        |-> item.arrow_points[1],
             end_pos          |-> item.arrow_points[Len(item.arrow_points)],
             length           |-> calculate_arrow_length(item.arrow_points),
             associated_frame |-> current_frame,
             receiver_id      |-> None]
    IN  [w EXCEPT !.tm.player_associations = DictSet(@, arrow, player_id),
                  !.tm.tactical_arrows = Append(@, tactical_arrow),
                  !.ret = IF tactical_arrow.action_type = "pass"
                          THEN "waiting_for_receiver" ELSE "associated"]

Pending_none(tas) ==
    \A i \in 1..Len(tas) : ~(tas[i].action_type = "pass" /\ ~IsSome(tas[i].receiver_id))

\* the receiver given to the oldest pending pass instead of the most recent
set_pass_receiver_oldest(w, receiver_player_id) ==
    LET tas == w.tm.tactical_arrows
        Pending(i) == tas[i].action_type = "pass" /\ ~IsSome(tas[i].receiver_id)
        found == {i \in 1..Len(tas) : Pending(i)}
    IN  IF found = {} THEN [w EXCEPT !.ret = "False"]
        ELSE LET i == CHOOSE j \in found : \A k \in found : j <= k
                 arrow_id == tas[i].arrow_id
             IN  [w EXCEPT !.tm.pass_receivers = DictSet(@, arrow_id, receiver_player_id),
                           !.tm.tactical_arrows[i].receiver_id = Some(receiver_player_id),
                           !.tm.ball_possession_chain =
                               Append(@, [from_player |-> tas[i].player_id,
                                          to_player   |-> receiver_player_id,
                                          arrow_id    |-> arrow_id]),
                           !.ret = "True"]

\* the receiver given to the most recent pass, pending or not
set_pass_receiver_again(w, receiver_player_id) ==
    LET tas == w.tm.tactical_arrows
        found == {i \in 1..Len(tas) : tas[i].action_type = "pass"}
    IN  IF found = {} THEN [w EXCEPT !.ret = "False"]
        ELSE LET i == CHOOSE j \in found : \A k \in found : k <= j
                 arrow_id == tas[i].arrow_id
             IN  [w EXCEPT !.tm.pass_receivers = DictSet(@, arrow_id, receiver_player_id),
                           !.tm.tactical_arrows[i].receiver_id = Some(receiver_player_id),
                           !.tm.ball_possession_chain =
                               Append(@, [from_player |-> tas[i].player_id,
                                          to_player   |-> receiver_player_id,
                                          arrow_id    |-> arrow_id]),
                           !.ret = IF Pending_none(tas) THEN "False" ELSE "True"]

set_pass_receiver(w, receiver_player_id) ==
    LET tas == w.tm.tactical_arrows
        Pending(i) == tas[i].action_type = "pass" /\ ~IsSome(tas[i].receiver_id)
        found == {i \in 1..Len(tas) : Pending(i)}
    IN  IF found = {} THEN [w EXCEPT !.ret = "False"]
        ELSE LET i == CHOOSE j \in found : \A k \in found : k <= j
                 arrow_id == tas[i].arrow_id
             IN  [w EXCEPT !.tm.pass_receivers = DictSet(@, arrow_id, receiver_player_id),
                           !.tm.tactical_arrows[i].receiver_id = Some(receiver_player_id),
                           !.tm.ball_possession_chain =
                               Append(@, [from_player |-> tas[i].player_id,
                                          to_player   |-> receiver_player_id,
                                          arrow_id    |-> arrow_id]),
                           !.ret = "True"]

\* the cleanup that leaves the links of the possession chain behind
remove_arrow_association_partial(w, arrow) ==
    LET Other(r) == r.arrow_id # arrow
    IN  [w EXCEPT !.tm.tactical_arrows = SelectSeq(@, Other),
                  !.tm.player_associations = DictDel(@, arrow),
                  !.tm.pass_receivers = DictDel(@, arrow)]

remove_arrow_association(w, arrow) ==
    LET Other(r) == r.arrow_id # arrow
    IN  [w EXCEPT !.tm.tactical_arrows = SelectSeq(@, Other),
                  !.tm.player_associations = DictDel(@, arrow),
                  !.tm.pass_receivers = DictDel(@, arrow),
                  !.tm.ball_possession_chain = SelectSeq(@, Other)]

\* the clearing that forgets to clear pass_receivers
clear_tactical_data_keeping_receivers(w) ==
    [w EXCEPT !.tm = [TacticalSimulationManager EXCEPT
                         !.pass_receivers = w.tm.pass_receivers]]

clear_tactical_data(w) == [w EXCEPT !.tm = TacticalSimulationManager]

-----------------------------------------------------------------------------
(* TrajectoryManager *)

\* TrajectoryManager.__init__: the empty dict is the empty function
TrajectoryManager ==
    [future_trajectories |-> <<>>,
     cached_frame        |-> None,
     cached_interval     |-> None]

clear_trails(w) == [w EXCEPT !.trm = TrajectoryManager]

RECURSIVE calculate_future_trajectories(_, _, _, _)

\* the value of sim_interval_spin as the window sets it up, in seconds
sim_interval_spin == 10

\* update_scene, what it does to the trajectories: in simulation mode, with
\* "Show trajectories" checked as the window sets it up, the real future
\* trajectories are computed from the start frame of the simulation
\* (SIMULATION_ONLY_ARROWS keeps the simulated ones from being computed)
update_scene(w, simulation_start_frame, xy) ==
    IF w.simulation_mode
    THEN calculate_future_trajectories(w, simulation_start_frame, sim_interval_spin, xy)
    ELSE w

-----------------------------------------------------------------------------
(* MainWindow *)

ForAllZoneManagers(w, Op(_, _)) == Op(Op(Op(w, "rectangle"), "ellipse"), "cone")

set_tool_mode(w, mode) ==
    LET SelectMode(x, k) == Zone_set_mode(x, k, "select")
        w0 == [w EXCEPT !.current_tool = mode]
        w1 == IF mode = "select"
              THEN ForAllZoneManagers(try_finish_arrow(w0), cancel_zone)
              ELSE w0
        w2 == IF mode \in {"arrow", "curve"}
              THEN ForAllZoneManagers(w1, SelectMode)
              ELSE w1
        w3 == IF mode \in {"rectangle_zone", "ellipse_zone", "cone_zone"}
              THEN LET k == CHOOSE z \in ZoneKinds : ZoneTool(z) = mode
                   IN  Arrow_set_mode(Zone_set_mode(w2, k, "create"), "select")
              ELSE w2
    IN  IF mode \notin {"rectangle_zone", "ellipse_zone"}
        THEN Arrow_set_mode(w3, mode)
        ELSE w3

keyPressEvent(w) ==
    IF w.current_tool # "select"
    THEN set_tool_mode(try_finish_arrow(w), "select")
    ELSE w

TeamColor(player_id) ==
    IF player_id \in SeqToSet(HomeIds) THEN "#4CAF50" ELSE "#F44336"

\* CustomArrowItem.set_color, with refresh_visual restoring the selection state
Arrow_set_color(item, color) ==
    Arrow_setSelected([item EXCEPT !.arrow_color = color], item.selected_state)

\* eventFilter, select tool, button press on an arrow
SelectPressOnArrow(w, arrow) ==
    ForAllZoneManagers(select_arrow(w, arrow), Zone_clear_selection)

\* eventFilter, select tool, button press on a zone of manager k
SelectPressOnZone(w, k, zone) ==
    LET ClearOther(x, j) == IF j = k THEN x ELSE Zone_clear_selection(x, j)
    IN  ForAllZoneManagers(select_zone(Arrow_clear_selection(w), k, zone), ClearOther)

\* eventFilter, select tool, left press on an empty area
SelectPressOnEmpty(w) ==
    ForAllZoneManagers(Arrow_clear_selection(w), Zone_clear_selection)

\* eventFilter, arrow and curve tools, left press at pos; from_id and to_id are
\* what the two player dialogs return (NoPlayer: rejected or nobody chosen)
ArrowToolLeftPress(w, pos, from_id, to_id, current_frame) ==
    LET w1 == Arrow_add_point(w, pos)
    IN  IF ~w1.am.arrow_curved /\ Len(w1.am.arrow_points) = 2
        THEN LET w2 == finish_arrow(w1)
                 new_arrow == w2.ret_item
                 w5 == IF new_arrow # 0 /\ w2.simulation_mode
                       THEN LET action_type == get_action_type(w2.arrow_items[new_arrow])
                                w3 == IF from_id # NoPlayer
                                      THEN [associate_arrow_with_player(w2, new_arrow, from_id, current_frame)
                                            EXCEPT !.arrow_items[new_arrow] =
                                                       Arrow_set_color(@, TeamColor(from_id))]
                                      ELSE w2
                            IN  IF action_type = "pass" /\ to_id # NoPlayer
                                THEN set_pass_receiver(w3, to_id)
                                ELSE w3
                       ELSE w2
             IN  set_tool_mode(w5, "select")
        ELSE w1

\* eventFilter, arrow and curve tools, right press
ArrowToolRightPress(w) ==
    IF Len(w.am.arrow_points) < 2
    THEN set_tool_mode(cancel_arrow(w), "select")
    ELSE w

\* eventFilter, zone tools
ZoneToolLeftPress(w, k, pos) == Zone_update_preview(Zone_add_point(w, k, pos), k, pos)

ZoneToolRightPress(w, k) == set_tool_mode(cancel_zone(w, k), "select")

ZoneToolLeftRelease(w, k) ==
    LET w1 == finish_zone(w, k)
    IN  IF w1.ret = "True" THEN set_tool_mode(w1, "select") ELSE w1

toggle_simulation_mode(w) ==
    IF ~w.simulation_mode
    THEN [w EXCEPT !.simulation_mode = TRUE, !.am.tactical_mode = TRUE]
    ELSE clear_tactical_data(clear_trails([w EXCEPT !.simulation_mode = FALSE,
                                                    !.am.tactical_mode = FALSE]))

-----------------------------------------------------------------------------
(* Bounds of the model *)

MaxArrows == 1        \* arrow items created in one run
MaxZones == 1         \* zone items created in one run
MaxCurvePoints == 2   \* points buffered for one curve

\* the pointer's path in one gesture: where it is once n points are buffered
GesturePoint(n) == Point(4 * Scale * n, 3 * Scale * (n % 2))
Frames == {0}

\* a step may add a shape or a point only below the bounds
WithinBounds(w) ==
    /\ Len(w.arrow_items) > Len(arrow_items) => Len(w.arrow_items) <= MaxArrows
    /\ Len(w.zone_items) > Len(zone_items) => Len(w.zone_items) <= MaxZones
    /\ Len(w.am.arrow_points) <= MaxCurvePoints

-----------------------------------------------------------------------------
(* The board: tools, creation and selection *)

Fresh ==
    [current_tool    |-> "select",
     simulation_mode |-> FALSE,
     am              |-> ArrowAnnotationManager,
     arrow_items     |-> <<>>,
     zm              |-> [k \in ZoneKinds |-> ZoneManager(k)],
     zone_items      |-> <<>>,
     tm              |-> TacticalSimulationManager,
     trm             |-> TrajectoryManager,
     handle_presses  |-> 0,
     ret             |-> "None",
     ret_item        |-> 0]

\* the tracking data: per player and for the ball, the position at each frame
\* or NaN
TrackedFrames == 51   \* frames of tracking data
NaN == <<>>
Still(pos) == [i \in 1..TrackedFrames |-> Some(pos)]
Untracked == [i \in 1..TrackedFrames |-> NaN]
Moving(pos, dx) == [i \in 1..TrackedFrames |-> Some(Point(pos.x + (i - 1) * dx, pos.y))]
Tracking(home, away, ball) ==
    [who \in Players \cup {"Ball"} |->
        IF who = "Ball" THEN ball ELSE IF who = HomeIds[1] THEN home ELSE away]

\* the matches loaded: the ball rests a metre from the origin and the away
\* player walks away from it; the home player stands as far from the ball as
\* the away player, or is not tracked, or stands further away
AwayWalk == Moving(Point(-Scale, 0), -(Scale \div 5))
BallRest == Still(Point(Scale, 0))
Trackings ==
    <<Tracking(Still(Point(3 * Scale, 0)), AwayWalk, BallRest),
      Tracking(Untracked, AwayWalk, BallRest),
      Tracking(Still(Point(9 * Scale, 0)), AwayWalk, BallRest)>>

\* MainWindow.__init__ ends _setup_managers with set_tool_mode("select")
Constructed == set_tool_mode(Fresh, "select")

StartWith(w, xy) ==
    /\ xy_objects = xy
    /\ current_tool = w.current_tool
    /\ simulation_mode = w.simulation_mode
    /\ annotation_manager = w.am
    /\ arrow_items = w.arrow_items
    /\ zone_manager = w.zm
    /\ zone_items = w.zone_items
    /\ tactical_manager = w.tm
    /\ trajectory_manager = w.trm
    /\ handle_presses = w.handle_presses
    /\ last = Call("__init__", "None", 0, "None", NoPos, "None", "None")

Start(w) == StartWith(w, Trackings[1])

Init == Start(Constructed)

Do(w, call) == WithinBounds(w) /\ Commit(w, call)

\* the tool buttons
ToolButton ==
    \E mode \in Tools :
        LET w == set_tool_mode(World, mode)
        IN  /\ WithinBounds(w)
            /\ Commit(w, Call("set_tool_mode", "None", 0, "None", NoPos, mode, "None"))

KeyPress ==
    LET w == keyPressEvent(World)
    IN  /\ WithinBounds(w)
        /\ Commit(w, Call("keyPressEvent", "None", 0, "None", NoPos, "None", "None"))

PressOnArrow ==
    /\ current_tool = "select"
    /\ \E a \in SeqToSet(annotation_manager.arrows) :
           Do(SelectPressOnArrow(World, a),
              Call("select_arrow", "arrow", a, "None", NoPos, "None", "None"))

PressOnZone ==
    /\ current_tool = "select"
    /\ \E k \in ZoneKinds : \E z \in SeqToSet(zone_manager[k].zones) :
           Do(SelectPressOnZone(World, k, z),
              Call("select_zone", k, z, "None", NoPos, "None", "None"))

PressOnEmpty ==
    /\ current_tool = "select"
    /\ Do(SelectPressOnEmpty(World),
          Call("clear_selection", "None", 0, "None", NoPos, "None", "None"))

ArrowLeftPress ==
    /\ current_tool \in {"arrow", "curve"}
    /\ \E from_id \in Players \cup {NoPlayer},
          to_id \in Players \cup {NoPlayer}, f \in Frames :
           /\ ~simulation_mode => (from_id = NoPlayer /\ to_id = NoPlayer)
           /\ Do(ArrowToolLeftPress(World, GesturePoint(Len(annotation_manager.arrow_points)),
                                    from_id, to_id, f),
                 Call("add_point", "arrow", 0, "None", NoPos, "None", "None"))

ArrowRightPress ==
    /\ current_tool \in {"arrow", "curve"}
    /\ Do(ArrowToolRightPress(World),
          Call("right_press", "arrow", 0, "None", NoPos, "None", "None"))

ArrowMouseMove ==
    /\ current_tool \in {"arrow", "curve"}
    /\ Len(annotation_manager.arrow_points) > 0
    /\ Do(Arrow_update_preview(World, GesturePoint(Len(annotation_manager.arrow_points))),
              Call("update_preview", "arrow", 0, "None", NoPos, "None", "None"))

ZoneLeftPress ==
    \E k \in ZoneKinds :
        /\ current_tool = ZoneTool(k)
        /\ Do(ZoneToolLeftPress(World, k, GesturePoint(Len(zone_manager[k].zone_points))),
              Call("add_point", k, 0, "None", NoPos, "None", "None"))

ZoneRightPress ==
    \E k \in ZoneKinds :
        /\ current_tool = ZoneTool(k)
        /\ Do(ZoneToolRightPress(World, k),
              Call("right_press", k, 0, "None", NoPos, "None", "None"))

ZoneMouseMove ==
    \E k \in ZoneKinds :
        /\ current_tool = ZoneTool(k)
        /\ Do(Zone_update_preview(World, k, GesturePoint(Len(zone_manager[k].zone_points))),
              Call("update_preview", k, 0, "None", NoPos, "None", "None"))

ZoneLeftRelease ==
    \E k \in ZoneKinds :
        /\ current_tool = ZoneTool(k)
        /\ LET w == ZoneToolLeftRelease(World, k)
           IN  Do(w, Call("finish_zone", k, 0, "None", NoPos, "None", finish_zone(World, k).ret))

\* ArrowAnnotationManager.finish_arrow and try_finish_arrow called directly
FinishArrow ==
    LET w == finish_arrow(World)
    IN  /\ WithinBounds(w)
        /\ Commit(w, Call("finish_arrow", "arrow", w.ret_item, "None", NoPos, "None", w.ret))

TryFinishArrow ==
    LET w == try_finish_arrow(World)
    IN  /\ WithinBounds(w)
        /\ Commit(w, Call("try_finish_arrow", "arrow", 0, "None", NoPos, "None", "None"))

ToggleSimulationMode ==
    LET w == update_scene(toggle_simulation_mode(World), 0, xy_objects)
    IN  /\ WithinBounds(w)
        /\ Commit(w, Call("toggle_simulation_mode", "None", 0, "None", NoPos,
                          "None", "None"))

Next ==
    \/ ToolButton
    \/ KeyPress
    \/ PressOnArrow
    \/ PressOnZone
    \/ PressOnEmpty
    \/ ArrowLeftPress
    \/ ArrowRightPress
    \/ ArrowMouseMove
    \/ ZoneLeftPress
    \/ ZoneRightPress
    \/ ZoneMouseMove
    \/ ZoneLeftRelease
    \/ FinishArrow
    \/ TryFinishArrow

Spec == Init /\ [][Next]_vars

-----------------------------------------------------------------------------
(* Creation, cancellation and selection *)

\* C1: a call of finish_arrow or try_finish_arrow made while fewer than two
\* points are buffered adds no arrow: the manager's arrows collection and the
\* arrow items of the scene are the same after the call as before it.
C1_NoArrowFromFewerThanTwoPoints ==
    [][(last'.op \in {"finish_arrow", "try_finish_arrow"}
        /\ Len(annotation_manager.arrow_points) < 2)
       => (/\ annotation_manager'.arrows = annotation_manager.arrows
           /\ arrow_items' = arrow_items)]_vars

\* finish_arrow has returned None for a buffer of one point, next to an arrow
\* committed earlier
C1_Witness ==
    /\ last.op = "finish_arrow"
    /\ last.points = 1
    /\ last.ret = "None"
    /\ Len(annotation_manager.arrows) = 1
    /\ annotation_manager.arrow_points = <<>>

\* the manager kind a tool creates shapes with
ToolKind(tool) ==
    IF tool \in {"arrow", "curve"} THEN "arrow"
    ELSE IF tool = "select" THEN "None"
    ELSE CHOOSE k \in ZoneKinds : ZoneTool(k) = tool

PendingPoints(tool) ==
    IF ToolKind(tool) = "arrow" THEN annotation_manager.arrow_points
    ELSE IF ToolKind(tool) = "None" THEN <<>>
    ELSE zone_manager[ToolKind(tool)].zone_points

\* C2: a switch to another tool, or a key press, made while the active tool has
\* a shape mid-creation commits that shape to its manager's collection when at
\* least two points are buffered and discards it otherwise, whatever the
\* current tool and the target tool are.
C2_InterruptCommitsOrDiscards ==
    [][((\/ last'.op = "keyPressEvent"
         \/ last'.op = "set_tool_mode" /\ last'.arg # current_tool)
        /\ Len(PendingPoints(current_tool)) >= 1)
       => LET k == ToolKind(current_tool)
              pts == PendingPoints(current_tool)
          IN  IF k = "arrow"
              THEN /\ annotation_manager'.arrow_points = <<>>
                   /\ annotation_manager'.arrow_preview = None
                   /\ IF Len(pts) >= 2
                      THEN /\ Len(annotation_manager'.arrows) = Len(annotation_manager.arrows) + 1
                           /\ arrow_items'[Len(arrow_items')].arrow_points = pts
                      ELSE annotation_manager'.arrows = annotation_manager.arrows
              ELSE /\ zone_manager'[k].zone_points = <<>>
                   /\ zone_manager'[k].zone_preview = None
                   /\ IF Len(pts) >= 2
                      THEN Len(zone_manager'[k].zones) = Len(zone_manager[k].zones) + 1
                      ELSE zone_manager'[k].zones = zone_manager[k].zones]_vars

\* C3: once a tool switch or a key press has completed, every manager whose
\* tool is not the active one has an empty point buffer and no preview.
C3_InactiveManagersHoldNothing ==
    last.op \in {"set_tool_mode", "keyPressEvent"}
    => /\ ToolKind(current_tool) # "arrow"
          => /\ annotation_manager.arrow_points = <<>>
             /\ annotation_manager.arrow_preview = None
       /\ \A k \in ZoneKinds :
              ToolKind(current_tool) # k
              => /\ zone_manager[k].zone_points = <<>>
                 /\ zone_manager[k].zone_preview = None

-----------------------------------------------------------------------------
(* Selection on a board that holds several shapes of every kind *)

ShapesPerManager == 2

\* the gestures that draw one arrow and one zone of kind k
DrawArrowTo(w, p) ==
    LET w1 == set_tool_mode(w, "arrow")
        w2 == ArrowToolLeftPress(w1, GesturePoint(0), NoPlayer, NoPlayer, 0)
    IN  ArrowToolLeftPress(w2, p, NoPlayer, NoPlayer, 0)

DrawArrow(w) == DrawArrowTo(w, GesturePoint(1))

DrawZone(w, k) ==
    LET w1 == set_tool_mode(w, ZoneTool(k))
        w2 == ZoneToolLeftPress(w1, k, GesturePoint(0))
        w3 == ZoneToolLeftPress(w2, k, GesturePoint(1))
    IN  ZoneToolLeftRelease(w3, k)

\* the gestures, drawn while the board holds fewer shapes than the bound
ArrowGesture ==
    /\ Len(arrow_items) < ShapesPerManager
    /\ Commit(DrawArrow(World),
              Call("finish_arrow", "arrow", 0, "None", NoPos, "None", "None"))

ZoneGesture ==
    \E k \in ZoneKinds :
        /\ Len(zone_items) < ShapesPerManager
        /\ Commit(DrawZone(World, k),
                  Call("finish_zone", k, 0, "None", NoPos, "None", "None"))

\* the managers' select_arrow and select_zone called on a shape they hold
SelectArrow ==
    \E a \in SeqToSet(annotation_manager.arrows) :
        /\ ~arrow_items[a].deleted
        /\ Commit(select_arrow(World, a),
                  Call("select_arrow", "arrow", a, "None", NoPos, "None", "None"))

SelectZone ==
    \E k \in ZoneKinds : \E z \in SeqToSet(zone_manager[k].zones) :
        /\ ~zone_items[z].deleted
        /\ Commit(select_zone(World, k, z),
                  Call("select_zone", k, z, "None", NoPos, "None", "None"))

NextSelect ==
    \/ ArrowGesture
    \/ ZoneGesture
    \/ ToolButton
    \/ KeyPress
    \/ PressOnArrow
    \/ PressOnZone
    \/ PressOnEmpty
    \/ SelectArrow
    \/ SelectZone

SpecSelect == Init /\ [][NextSelect]_vars

\* C4: once select_arrow(a) or select_zone(z) has run on a manager, that shape
\* is the only one of the manager's collection in selected state and it is the
\* manager's selected reference; a shape selected before is unselected.
C4_ExactlyTheSelectedShape ==
    /\ last.op = "select_arrow"
       => /\ annotation_manager.selected_arrow = last.item
          /\ \A a \in SeqToSet(annotation_manager.arrows) :
                 arrow_items[a].selected_state <=> a = last.item
    /\ last.op = "select_zone"
       => /\ zone_manager[last.kind].selected_zone = last.item
          /\ \A z \in SeqToSet(zone_manager[last.kind].zones) :
                 zone_items[z].selected <=> z = last.item

\* select_arrow has run on an arrow while another arrow was the selected one
C4_Witness ==
    /\ last.op = "select_arrow"
    /\ last.selected # 0
    /\ last.selected # last.item
    /\ last.item \in SeqToSet(annotation_manager.arrows)
    /\ last.selected \in SeqToSet(annotation_manager.arrows)
    /\ arrow_items[last.item].selected_state

-----------------------------------------------------------------------------
(* Resize and move: CustomArrowItem *)

\* the bounding box of a list of points: min and max of x and of y
RECURSIVE MinOver(_, _, _)
MinOver(pts, i, axis) ==
    LET v == IF axis = "x" THEN pts[i].x ELSE pts[i].y
    IN  IF i = Len(pts) THEN v ELSE Min(v, MinOver(pts, i + 1, axis))

RECURSIVE MaxOver(_, _, _)
MaxOver(pts, i, axis) ==
    LET v == IF axis = "x" THEN pts[i].x ELSE pts[i].y
    IN  IF i = Len(pts) THEN v ELSE Max(v, MaxOver(pts, i + 1, axis))

PointsBounds(pts) ==
    [min_x |-> MinOver(pts, 1, "x"), max_x |-> MaxOver(pts, 1, "x"),
     min_y |-> MinOver(pts, 1, "y"), max_y |-> MaxOver(pts, 1, "y")]

\* truth value of _original_points: neither None nor an empty list
HasOriginalPoints(item) ==
    IsSome(item.original_points) /\ Len(The(item.original_points)) > 0

Arrow_start_resize(item, corner_type, scene_pos) ==
    [item EXCEPT !.is_resizing = TRUE,
                 !.resize_corner = corner_type,
                 !.resize_start_pos = Some(scene_pos),
                 !.original_points =
                     Some([i \in DOMAIN item.arrow_points |->
                              PSub(item.arrow_points[i], item.pos)]),
                 !.movable = FALSE]

\* the bounds with every corner moving the edges of the opposite corner
Arrow_new_bounds_mirrored(item, corner_type, scene_pos) ==
    LET delta == PSub(scene_pos, The(item.resize_start_pos))
        orig == PointsBounds(The(item.original_points))
    IN  [min_x |-> IF corner_type \in {"top_right", "bottom_right"}
                   THEN orig.min_x + delta.x ELSE orig.min_x,
         max_x |-> IF corner_type \in {"top_left", "bottom_left"}
                   THEN orig.max_x + delta.x ELSE orig.max_x,
         min_y |-> IF corner_type \in {"bottom_left", "bottom_right"}
                   THEN orig.min_y + delta.y ELSE orig.min_y,
         max_y |-> IF corner_type \in {"top_left", "top_right"}
                   THEN orig.max_y + delta.y ELSE orig.max_y]

\* the bounds update_resize computes for the tick, from the snapshot
Arrow_new_bounds(item, corner_type, scene_pos) ==
    LET delta == PSub(scene_pos, The(item.resize_start_pos))
        orig == PointsBounds(The(item.original_points))
    IN  [min_x |-> IF corner_type \in {"top_left", "bottom_left"}
                   THEN orig.min_x + delta.x ELSE orig.min_x,
         max_x |-> IF corner_type \in {"top_right", "bottom_right"}
                   THEN orig.max_x + delta.x ELSE orig.max_x,
         min_y |-> IF corner_type \in {"top_left", "top_right"}
                   THEN orig.min_y + delta.y ELSE orig.min_y,
         max_y |-> IF corner_type \in {"bottom_left", "bottom_right"}
                   THEN orig.max_y + delta.y ELSE orig.max_y]

\* update_resize that normalizes the points the arrow has at the tick
\* instead of the points of the snapshot
Arrow_rescale_from_current(item, corner_type, scene_pos) ==
    LET current == [i \in DOMAIN item.arrow_points |-> PSub(item.arrow_points[i], item.pos)]
        orig == PointsBounds(The(item.original_points))
        new == Arrow_new_bounds(item, corner_type, scene_pos)
        orig_width == orig.max_x - orig.min_x
        orig_height == orig.max_y - orig.min_y
        new_width == new.max_x - new.min_x
        new_height == new.max_y - new.min_y
        norm_x(q) == IF orig_width > 0 THEN Div(q.x - orig.min_x, orig_width) ELSE 0
        norm_y(q) == IF orig_height > 0 THEN Div(q.y - orig.min_y, orig_height) ELSE 0
    IN  [item EXCEPT !.arrow_points =
            [i \in DOMAIN current |->
                Point(new.min_x + Mul(norm_x(current[i]), new_width) + item.pos.x,
                      new.min_y + Mul(norm_y(current[i]), new_height) + item.pos.y)]]

\* update_resize with the points rescaled whatever the new width and height
Arrow_rescale(item, corner_type, scene_pos) ==
    LET original == The(item.original_points)
        orig == PointsBounds(original)
        new == Arrow_new_bounds(item, corner_type, scene_pos)
        orig_width == orig.max_x - orig.min_x
        orig_height == orig.max_y - orig.min_y
        new_width == new.max_x - new.min_x
        new_height == new.max_y - new.min_y
        norm_x(q) == IF orig_width > 0 THEN Div(q.x - orig.min_x, orig_width) ELSE 0
        norm_y(q) == IF orig_height > 0 THEN Div(q.y - orig.min_y, orig_height) ELSE 0
    IN  [item EXCEPT !.arrow_points =
            [i \in DOMAIN original |->
                Point(new.min_x + Mul(norm_x(original[i]), new_width) + item.pos.x,
                      new.min_y + Mul(norm_y(original[i]), new_height) + item.pos.y)]]

Arrow_update_resize(item, corner_type, scene_pos) ==
    IF ~item.is_resizing \/ ~HasOriginalPoints(item) THEN item
    ELSE LET new == Arrow_new_bounds(item, corner_type, scene_pos)
             new_width == new.max_x - new.min_x
             new_height == new.max_y - new.min_y
         IN  IF new_width <= Scale \/ new_height <= Scale THEN item
             ELSE Arrow_rescale(item, corner_type, scene_pos)

Arrow_end_resize(item) ==
    [item EXCEPT !.is_resizing = FALSE,
                 !.resize_corner = "None",
                 !.resize_start_pos = None,
                 !.original_points = None,
                 !.movable = TRUE]

\* itemChange without the check of _is_resizing
Arrow_itemChange_moving(item, value) ==
    IF item.selected_state
    THEN LET delta == PSub(value, item.pos)
         IN  [item EXCEPT !.arrow_points =
                              [i \in DOMAIN item.arrow_points |->
                                  PAdd(item.arrow_points[i], delta)],
                          !.pos = value]
    ELSE [item EXCEPT !.pos = value]

\* itemChange(ItemPositionChange, value), and the position the scene then
\* gives the item: the value itemChange returned
Arrow_itemChange(item, value) ==
    IF item.selected_state /\ item.is_resizing THEN item
    ELSE Arrow_itemChange_moving(item, value)

-----------------------------------------------------------------------------
(* Resize, move and rotation: RectangleZoneItem and EllipseZoneItem *)

\* the rotation angles of the model, in degrees, with math.cos and math.sin
\* of each on the fixed-point scale
RotationAngles == {0, 30, 45, 90}

Cos(deg) == CASE deg = 0 -> 1000 [] deg = 30 -> 866 [] deg = 45 -> 707 [] deg = 90 -> 0
Sin(deg) == CASE deg = 0 -> 0 [] deg = 30 -> 500 [] deg = 45 -> 707 [] deg = 90 -> 1000

\* 1e-6, the smallest positive value the fixed-point scale has
Epsilon == 1

\* truth value of _original_rect: not None and a valid QRectF
HasOriginalRect(item) ==
    IsSome(item.original_rect) /\ IsValidRect(The(item.original_rect))

\* QTransform: rotation by deg around center, applied to p
RotateAround(p, center, deg) ==
    LET dx == p.x - center.x
        dy == p.y - center.y
    IN  Point(center.x + Mul(dx, Cos(deg)) - Mul(dy, Sin(deg)),
              center.y + Mul(dx, Sin(deg)) + Mul(dy, Cos(deg)))

RectCorners(r) ==
    <<Point(r.x, r.y), Point(r.x + r.w, r.y),
      Point(r.x, r.y + r.h), Point(r.x + r.w, r.y + r.h)>>

\* QTransform.mapRect: the bounding rectangle of the four mapped corners
MapRect(r, deg) ==
    LET center == Center(r)
        mapped == [i \in 1..4 |-> RotateAround(RectCorners(r)[i], center, deg)]
        b == PointsBounds(mapped)
    IN  Rect(b.min_x, b.min_y, b.max_x - b.min_x, b.max_y - b.min_y)

\* RectangleZoneItem._update_selection_rect: the bounds of the rotated zone
Rect_selection_bounds(item) ==
    IF item.rotation_angle # 0 THEN MapRect(item.rect, item.rotation_angle)
    ELSE item.rect

\* EllipseZoneItem._update_selection_rect
Ellipse_selection_bounds(item) ==
    LET center == Center(item.rect)
        a == item.rect.w \div 2
        b == item.rect.h \div 2
        c == Cos(item.rotation_angle)
        s == Sin(item.rotation_angle)
        half_w == Sqrt(Mul(Mul(a, c), Mul(a, c)) + Mul(Mul(b, s), Mul(b, s)))
        half_h == Sqrt(Mul(Mul(a, s), Mul(a, s)) + Mul(Mul(b, c), Mul(b, c)))
    IN  Rect(center.x - half_w, center.y - half_h, 2 * half_w, 2 * half_h)

Zone_selection_bounds(item) ==
    IF item.kind = "rectangle" THEN Rect_selection_bounds(item)
    ELSE Ellipse_selection_bounds(item)

\* set_rotation that writes the rotated bounds into the rect
Zone_set_rotation_baking(item, angle) ==
    Zone_update_selection_rect(
        [item EXCEPT !.rotation_angle = angle,
                     !.rect = Zone_selection_bounds([item EXCEPT !.rotation_angle = angle])])

\* set_rotation of the rectangle and ellipse items: the outline follows only
\* while the zone is selected
Zone_set_rotation(item, angle) ==
    LET turned == [item EXCEPT !.rotation_angle = angle]
    IN  IF item.selected THEN Zone_update_selection_rect(turned) ELSE turned

Zone_start_resize(item, corner_type, scene_pos) ==
    [item EXCEPT !.is_resizing = TRUE,
                 !.resize_corner = corner_type,
                 !.resize_start_pos = Some(scene_pos),
                 !.original_rect = Some(item.rect),
                 !.movable = FALSE]

Opposite(corner_type) ==
    CASE corner_type = "top_left" -> "bottom_right"
      [] corner_type = "bottom_right" -> "top_left"
      [] corner_type = "top_right" -> "bottom_left"
      [] corner_type = "bottom_left" -> "top_right"

\* the corners dict of update_resize
CornerOf(bounds, corner_type) ==
    CASE corner_type = "top_left" -> Point(bounds.x, bounds.y)
      [] corner_type = "top_right" -> Point(bounds.x + bounds.w, bounds.y)
      [] corner_type = "bottom_left" -> Point(bounds.x, bounds.y + bounds.h)
      [] corner_type = "bottom_right" -> Point(bounds.x + bounds.w, bounds.y + bounds.h)

\* RectangleZoneItem.update_resize up to the solved width and height: the
\* fixed corner, the bounds the tick asks for, and new_w, new_h before max(1.0, .)
Rect_solve(item, corner_type, scene_pos) ==
    LET new_corner_local == PSub(scene_pos, item.pos)
        orig_rect == The(item.original_rect)
        c == Abs(Cos(item.rotation_angle))
        s == Abs(Sin(item.rotation_angle))
        center_orig == Center(orig_rect)
        bw_orig == Mul(orig_rect.w, c) + Mul(orig_rect.h, s)
        bh_orig == Mul(orig_rect.w, s) + Mul(orig_rect.h, c)
        bounds_orig == Rect(center_orig.x - bw_orig \div 2,
                            center_orig.y - bh_orig \div 2, bw_orig, bh_orig)
        fixed == CornerOf(bounds_orig, Opposite(corner_type))
        new_bounds == NormalizedRect(new_corner_local, fixed)
        bw == new_bounds.w
        bh == new_bounds.h
        det == Mul(c, c) - Mul(s, s)
    IN  [fixed |-> fixed,
         new_bounds |-> new_bounds,
         singular |-> Abs(det) < Epsilon,
         w |-> IF Abs(det) < Epsilon
               THEN Mul(orig_rect.w, Div(bw, Max(bw_orig, Epsilon)))
               ELSE Div(Mul(bw, c) - Mul(bh, s), det),
         h |-> IF Abs(det) < Epsilon
               THEN Mul(orig_rect.h, Div(bh, Max(bh_orig, Epsilon)))
               ELSE Div(Mul(bh, c) - Mul(bw, s), det)]

\* the new rect built around the centre the zone had, not that of the new bounds
Zone_with_size_in_place(item, new_bounds, new_w, new_h) ==
    LET center_old == Center(item.rect)
    IN  [item EXCEPT !.rect = Rect(center_old.x - new_w \div 2,
                                   center_old.y - new_h \div 2, new_w, new_h)]

\* the zone with its rect rebuilt around the centre of the new bounds
Zone_with_size(item, new_bounds, new_w, new_h) ==
    LET center_new == Center(new_bounds)
    IN  [item EXCEPT !.rect = Rect(center_new.x - new_w \div 2,
                                   center_new.y - new_h \div 2, new_w, new_h)]

Rect_update_resize(item, corner_type, scene_pos) ==
    IF ~item.is_resizing \/ ~HasOriginalRect(item) THEN item
    ELSE LET r == Rect_solve(item, corner_type, scene_pos)
         IN  Zone_update_selection_rect(
                 Zone_with_size(item, r.new_bounds, Max(Scale, r.w), Max(Scale, r.h)))

\* EllipseZoneItem.update_resize up to the solved semi-axes: A, B and, away
\* from the singular angles, a2 and b2 before max(1e-6, .)
Ellipse_solve(item, corner_type, scene_pos) ==
    LET new_corner_local == PSub(scene_pos, item.pos)
        orig_rect == The(item.original_rect)
        c == Cos(item.rotation_angle)
        s == Sin(item.rotation_angle)
        c2 == Mul(c, c)
        s2 == Mul(s, s)
        center_orig == Center(orig_rect)
        a0 == Max(Epsilon, orig_rect.w \div 2)
        b0 == Max(Epsilon, orig_rect.h \div 2)
        half_w0 == Sqrt(Mul(Mul(a0, c), Mul(a0, c)) + Mul(Mul(b0, s), Mul(b0, s)))
        half_h0 == Sqrt(Mul(Mul(a0, s), Mul(a0, s)) + Mul(Mul(b0, c), Mul(b0, c)))
        bounds_orig == Rect(center_orig.x - half_w0, center_orig.y - half_h0,
                            2 * half_w0, 2 * half_h0)
        fixed == CornerOf(bounds_orig, Opposite(corner_type))
        new_bounds == NormalizedRect(new_corner_local, fixed)
        A == Max(Scale, new_bounds.w \div 2)
        B == Max(Scale, new_bounds.h \div 2)
        D == c2 - s2
    IN  [fixed |-> fixed,
         new_bounds |-> new_bounds,
         singular |-> Abs(D) < Epsilon,
         A |-> A,
         B |-> B,
         a0 |-> a0,
         b0 |-> b0,
         scale_w |-> Div(A * 2, Max(bounds_orig.w, Epsilon)),
         scale_h |-> Div(B * 2, Max(bounds_orig.h, Epsilon)),
         a2 |-> IF Abs(D) < Epsilon THEN 0
                ELSE Div(Mul(Mul(A, A), c2) - Mul(Mul(B, B), s2), D),
         b2 |-> IF Abs(D) < Epsilon THEN 0
                ELSE Div(Mul(Mul(B, B), c2) - Mul(Mul(A, A), s2), D)]

Ellipse_update_resize(item, corner_type, scene_pos) ==
    IF ~item.is_resizing \/ ~HasOriginalRect(item) THEN item
    ELSE LET r == Ellipse_solve(item, corner_type, scene_pos)
             a == IF r.singular THEN Max(Scale, Mul(r.a0, r.scale_w))
                  ELSE Sqrt(Max(Epsilon, r.a2))
             b == IF r.singular THEN Max(Scale, Mul(r.b0, r.scale_h))
                  ELSE Sqrt(Max(Epsilon, r.b2))
             center_new == Center(r.new_bounds)
         IN  Zone_update_selection_rect(
                 [item EXCEPT !.rect = Rect(center_new.x - a, center_new.y - b, 2 * a, 2 * b)])

Zone_update_resize(item, corner_type, scene_pos) ==
    IF item.kind = "rectangle" THEN Rect_update_resize(item, corner_type, scene_pos)
    ELSE Ellipse_update_resize(item, corner_type, scene_pos)

Zone_end_resize(item) ==
    [item EXCEPT !.is_resizing = FALSE,
                 !.resize_corner = "None",
                 !.resize_start_pos = None,
                 !.original_rect = Some(item.rect),
                 !.movable = TRUE]

\* itemChange of the rectangle and ellipse items for a position change to
\* value: ItemPositionChange, the position the scene then gives the item, and
\* ItemPositionHasChanged when it differs from the old one
Zone_itemChange(item, value) ==
    IF item.selected /\ item.is_resizing THEN item
    ELSE LET shown == IF item.selected THEN Zone_update_selection_rect(item) ELSE item
         IN  IF value = item.pos THEN shown
             ELSE [shown EXCEPT !.pos = value, !.original_rect = Some(item.rect)]

-----------------------------------------------------------------------------
(* One shape on the board, selected, and its resize handles *)

MaxSessions == 1

\* where on a handle the press lands, relative to the corner it sits on
PressOffsets == {Point(0, 0), Point(-400, -400)}
\* where the pointer is at a mouse move of a resize session
DragPositions == {Point(8000, 4000), Point(6000, 5000), Point(500, 500), Point(8000, -2000)}
\* the positions a position change asks for
MovePositions == {Point(0, 0), Point(1000, 2000)}

InitResize ==
    \/ \E p \in {GesturePoint(1), Point(0, 3000)} :
           Start(SelectPressOnArrow(DrawArrowTo(Constructed, p), 1))
    \/ \E k \in {"rectangle", "ellipse"} :
           Start(SelectPressOnZone(DrawZone(Constructed, k), k, 1))

NoSession ==
    /\ \A a \in DOMAIN arrow_items : ~arrow_items[a].is_resizing
    /\ \A z \in DOMAIN zone_items : ~zone_items[z].is_resizing

\* the corner of the selection rectangle a handle sits on, in the scene
ArrowHandleAt(item, corner_type) ==
    LET b == PointsBounds(item.arrow_points)
    IN  CornerOf(Rect(b.min_x, b.min_y, b.max_x - b.min_x, b.max_y - b.min_y), corner_type)

ZoneHandleAt(item, corner_type) ==
    PAdd(CornerOf(Zone_selection_bounds(item), corner_type), item.pos)

\* a left press on a handle: the event filter selects the shape under the
\* pointer, then ResizeHandle.mousePressEvent starts the resize
ArrowHandlePress ==
    /\ current_tool = "select"
    /\ NoSession
    /\ handle_presses < MaxSessions
    /\ \E a \in SeqToSet(annotation_manager.arrows), corner \in Corners, off \in PressOffsets :
           /\ arrow_items[a].handles_visible
           /\ LET pos == PAdd(ArrowHandleAt(arrow_items[a], corner), off)
                  w == SelectPressOnArrow(World, a)
              IN  Commit([w EXCEPT !.arrow_items[a] = Arrow_start_resize(@, corner, pos),
                                   !.handle_presses = @ + 1],
                         Call("start_resize", "arrow", a, corner, pos, "None", "None"))

\* ResizeHandle.mouseMoveEvent and mouseReleaseEvent
ArrowHandleMove ==
    \E a \in DOMAIN arrow_items, pos \in DragPositions :
        /\ arrow_items[a].is_resizing
        /\ Commit([World EXCEPT !.arrow_items[a] =
                       Arrow_update_resize(@, arrow_items[a].resize_corner, pos)],
                  Call("update_resize", "arrow", a, arrow_items[a].resize_corner, pos,
                       "None", "None"))

ArrowHandleRelease ==
    \E a \in DOMAIN arrow_items :
        /\ arrow_items[a].is_resizing
        /\ Commit([World EXCEPT !.arrow_items[a] = Arrow_end_resize(@)],
                  Call("end_resize", "arrow", a, "None", NoPos, "None", "None"))

\* a position change of the item: a drag of its body, or setPos
ArrowPositionChange ==
    \E a \in SeqToSet(annotation_manager.arrows), value \in MovePositions :
        /\ arrow_items[a].selected_state
        /\ Commit([World EXCEPT !.arrow_items[a] = Arrow_itemChange(@, value)],
                  Call("setPos", "arrow", a, "None", value, "None", "None"))

ZoneHandlePress ==
    /\ current_tool = "select"
    /\ NoSession
    /\ handle_presses < MaxSessions
    /\ \E k \in {"rectangle", "ellipse"}, corner \in Corners, off \in PressOffsets :
         \E z \in SeqToSet(zone_manager[k].zones) :
           /\ zone_items[z].handles_visible
           /\ LET pos == PAdd(ZoneHandleAt(zone_items[z], corner), off)
                  w == SelectPressOnZone(World, k, z)
              IN  Commit([w EXCEPT !.zone_items[z] = Zone_start_resize(@, corner, pos),
                                   !.handle_presses = @ + 1],
                         Call("start_resize", k, z, corner, pos, "None", "None"))

ZoneHandleMove ==
    \E z \in DOMAIN zone_items, pos \in DragPositions :
        /\ zone_items[z].is_resizing
        /\ Commit([World EXCEPT !.zone_items[z] =
                       Zone_update_resize(@, zone_items[z].resize_corner, pos)],
                  Call("update_resize", zone_items[z].kind, z, zone_items[z].resize_corner,
                       pos, "None", "None"))

ZoneHandleRelease ==
    \E z \in DOMAIN zone_items :
        /\ zone_items[z].is_resizing
        /\ Commit([World EXCEPT !.zone_items[z] = Zone_end_resize(@)],
                  Call("end_resize", zone_items[z].kind, z, "None", NoPos, "None", "None"))

ZonePositionChange ==
    \E k \in {"rectangle", "ellipse"}, value \in MovePositions :
      \E z \in SeqToSet(zone_manager[k].zones) :
        /\ zone_items[z].selected
        /\ Commit([World EXCEPT !.zone_items[z] = Zone_itemChange(@, value)],
                  Call("setPos", k, z, "None", value, "None", "None"))

\* the rotation spin box of the zone properties menu
SetRotation ==
    /\ NoSession
    /\ \E k \in {"rectangle", "ellipse"}, angle \in RotationAngles :
         \E z \in SeqToSet(zone_manager[k].zones) :
           /\ zone_items[z].selected
           /\ Commit([World EXCEPT !.zone_items[z] = Zone_set_rotation(@, angle)],
                     Call("set_rotation", k, z, "None", NoPos, "None", "None"))

NextResize ==
    \/ ArrowHandlePress
    \/ ArrowHandleMove
    \/ ArrowHandleRelease
    \/ ArrowPositionChange
    \/ ZoneHandlePress
    \/ ZoneHandleMove
    \/ ZoneHandleRelease
    \/ ZonePositionChange
    \/ SetRotation

SpecResize == InitResize /\ [][NextResize]_vars

-----------------------------------------------------------------------------
(* Resize and move *)

\* the shape the last call was made on
LastIsArrow == last.kind = "arrow" /\ last.item \in DOMAIN arrow_items
LastIsZone == last.kind \in {"rectangle", "ellipse"} /\ last.item \in DOMAIN zone_items

\* C5: resizing and moving exclude each other for arrows, rectangle zones and
\* ellipse zones: a shape that is resizing is not movable, a position change
\* asked for between start_resize and end_resize leaves the shape's position
\* and geometry as they were, and end_resize leaves the shape idle: not
\* resizing and movable.
C5_ResizeExcludesMove ==
    [][/\ \A a \in DOMAIN arrow_items' :
             arrow_items'[a].is_resizing => ~arrow_items'[a].movable
       /\ \A z \in DOMAIN zone_items' :
             zone_items'[z].is_resizing => ~zone_items'[z].movable
       /\ (last'.op = "start_resize" /\ last'.kind = "arrow")
             => arrow_items'[last'.item].is_resizing
       /\ (last'.op = "start_resize" /\ last'.kind # "arrow")
             => zone_items'[last'.item].is_resizing
       /\ (last'.op = "setPos" /\ last'.kind = "arrow"
             /\ arrow_items[last'.item].is_resizing)
             => /\ arrow_items'[last'.item].pos = arrow_items[last'.item].pos
                /\ arrow_items'[last'.item].arrow_points = arrow_items[last'.item].arrow_points
                /\ arrow_items'[last'.item].is_resizing
       /\ (last'.op = "setPos" /\ last'.kind # "arrow"
             /\ zone_items[last'.item].is_resizing)
             => /\ zone_items'[last'.item].pos = zone_items[last'.item].pos
                /\ zone_items'[last'.item].rect = zone_items[last'.item].rect
                /\ zone_items'[last'.item].is_resizing
       /\ (last'.op = "end_resize" /\ last'.kind = "arrow")
             => /\ ~arrow_items'[last'.item].is_resizing
                /\ arrow_items'[last'.item].movable
       /\ (last'.op = "end_resize" /\ last'.kind # "arrow")
             => /\ ~zone_items'[last'.item].is_resizing
                /\ zone_items'[last'.item].movable]_vars

\* a position change to another position was asked of an arrow that had been
\* resized in this session, and the arrow is still resizing where it was
C5_Witness ==
    /\ last.op = "setPos"
    /\ LastIsArrow
    /\ arrow_items[last.item].is_resizing
    /\ last.pos # arrow_items[last.item].pos
    /\ \E i \in DOMAIN arrow_items[last.item].arrow_points :
           arrow_items[last.item].arrow_points[i]
               # PAdd(The(arrow_items[last.item].original_points)[i],
                      arrow_items[last.item].pos)

\* the width or the height an update_resize tick would give the shape is at
\* most one unit
ArrowTickTooSmall(item, corner_type, scene_pos) ==
    LET new == Arrow_new_bounds(item, corner_type, scene_pos)
    IN  new.max_x - new.min_x <= Scale \/ new.max_y - new.min_y <= Scale

ZoneTickTooSmall(item, corner_type, scene_pos) ==
    IF item.kind = "rectangle"
    THEN LET r == Rect_solve(item, corner_type, scene_pos)
         IN  r.w <= Scale \/ r.h <= Scale
    ELSE LET r == Ellipse_solve(item, corner_type, scene_pos)
         IN  r.new_bounds.w <= Scale \/ r.new_bounds.h <= Scale

\* C6: an update_resize tick whose resulting width or height would be at most
\* one unit is a no-op for arrows, rectangle zones and ellipse zones: the
\* geometry after the tick is what it was before, and the session stays active.
C6_TooSmallTickIsNoOp ==
    [][/\ (last'.op = "update_resize" /\ last'.kind = "arrow"
            /\ ArrowTickTooSmall(arrow_items[last'.item], last'.corner, last'.pos))
           => /\ arrow_items'[last'.item].arrow_points = arrow_items[last'.item].arrow_points
              /\ arrow_items'[last'.item].is_resizing
       /\ (last'.op = "update_resize" /\ last'.kind # "arrow"
            /\ HasOriginalRect(zone_items[last'.item])
            /\ ZoneTickTooSmall(zone_items[last'.item], last'.corner, last'.pos))
           => /\ zone_items'[last'.item].rect = zone_items[last'.item].rect
              /\ zone_items'[last'.item].is_resizing]_vars

\* C7: after resize updates, at any rotation and for any drag position, the
\* unrotated width and height of a rectangle zone and of an ellipse zone are
\* each at least one unit.
C7_ZoneAtLeastOneUnit ==
    (last.op = "update_resize" /\ LastIsZone)
    => /\ zone_items[last.item].rect.w >= Scale
       /\ zone_items[last.item].rect.h >= Scale

\* the tolerance of a comparison of positions computed on the fixed-point scale
Tol == 10

Near(a, b) == Abs(a - b) <= Tol
RectNear(r, q) ==
    /\ Near(r.x, q.x) /\ Near(r.y, q.y)
    /\ Near(r.x + r.w, q.x + q.w) /\ Near(r.y + r.h, q.y + q.h)
PointNear(p, q) == Near(p.x, q.x) /\ Near(p.y, q.y)

\* the rotated bounding box of a zone in the scene, now and at start_resize
SceneBounds(item) ==
    LET b == Zone_selection_bounds(item)
    IN  Rect(b.x + item.pos.x, b.y + item.pos.y, b.w, b.h)

StartBounds(item) == SceneBounds([item EXCEPT !.rect = The(item.original_rect)])

\* C8 as claimed: after every update_resize of a rectangle or ellipse zone the
\* rotated bounding box has the corner opposite the dragged handle where it
\* was at start_resize and the dragged corner at the cursor.
C8_OppositeCornerFixed ==
    (last.op = "update_resize" /\ LastIsZone /\ HasOriginalRect(zone_items[last.item]))
    => LET item == zone_items[last.item]
       IN  /\ PointNear(CornerOf(SceneBounds(item), Opposite(last.corner)),
                        CornerOf(StartBounds(item), Opposite(last.corner)))
           /\ PointNear(CornerOf(SceneBounds(item), last.corner), last.pos)

\* the tick is away from the singular angles and none of the minimum sizes of
\* update_resize applies to it
TickUnclamped(item, corner_type, scene_pos) ==
    IF item.kind = "rectangle"
    THEN LET r == Rect_solve(item, corner_type, scene_pos)
         IN  ~r.singular /\ r.w >= Scale /\ r.h >= Scale
    ELSE LET r == Ellipse_solve(item, corner_type, scene_pos)
         IN  /\ ~r.singular
             /\ r.new_bounds.w >= 2 * Scale /\ r.new_bounds.h >= 2 * Scale
             /\ r.a2 >= Epsilon /\ r.b2 >= Epsilon

\* C8, amended: after an update_resize of a rectangle or ellipse zone at an
\* angle that is not singular, with no minimum size applied, the rotated
\* bounding box is the rectangle spanned by the cursor and the position the
\* corner opposite the dragged handle had at start_resize.
C8_BoundsSpanCursorAndFixedCorner ==
    (/\ last.op = "update_resize" /\ LastIsZone
     /\ HasOriginalRect(zone_items[last.item])
     /\ TickUnclamped(zone_items[last.item], last.corner, last.pos))
    => LET item == zone_items[last.item]
       IN  RectNear(SceneBounds(item),
                    NormalizedRect(last.pos,
                                   CornerOf(StartBounds(item), Opposite(last.corner))))

\* an ellipse zone rotated by 30 degrees and moved has been resized by a tick
\* that no minimum size applies to
C8_Witness ==
    /\ last.op = "update_resize"
    /\ LastIsZone
    /\ zone_items[last.item].kind = "ellipse"
    /\ zone_items[last.item].rotation_angle = 30
    /\ zone_items[last.item].pos # Point(0, 0)
    /\ HasOriginalRect(zone_items[last.item])
    /\ TickUnclamped(zone_items[last.item], last.corner, last.pos)
    /\ zone_items[last.item].rect # The(zone_items[last.item].original_rect)

\* the width and height of an arrow: those of the bounding box of its points
ArrowWidth(pts) == PointsBounds(pts).max_x - PointsBounds(pts).min_x
ArrowHeight(pts) == PointsBounds(pts).max_y - PointsBounds(pts).min_y

\* the last call is a tick of the bottom_right handle of a shape in a resize
\* session, with the cursor right of and below where the session started
BottomRightDraggedOutwards(item) ==
    /\ last.op = "update_resize"
    /\ last.corner = "bottom_right"
    /\ item.is_resizing
    /\ IsSome(item.resize_start_pos)
    /\ last.pos.x > The(item.resize_start_pos).x
    /\ last.pos.y > The(item.resize_start_pos).y

\* C9 as claimed: whatever the shape and its rotation, after a tick of the
\* bottom_right handle by a delta positive in both axes the shape is strictly
\* wider and strictly higher than it was at start_resize.
C9_BottomRightGrowsShape ==
    /\ (LastIsArrow /\ BottomRightDraggedOutwards(arrow_items[last.item])
                    /\ HasOriginalPoints(arrow_items[last.item]))
       => LET item == arrow_items[last.item]
          IN  /\ ArrowWidth(item.arrow_points) > ArrowWidth(The(item.original_points))
              /\ ArrowHeight(item.arrow_points) > ArrowHeight(The(item.original_points))
    /\ (LastIsZone /\ BottomRightDraggedOutwards(zone_items[last.item])
                   /\ HasOriginalRect(zone_items[last.item]))
       => LET item == zone_items[last.item]
          IN  /\ item.rect.w > The(item.original_rect).w
              /\ item.rect.h > The(item.original_rect).h

\* C9, amended: after a tick of the bottom_right handle by a delta positive in
\* both axes that update_resize accepts, an arrow whose bounding box had a
\* positive width and height at start_resize is strictly wider and higher
\* than it was then; so is a
\* rectangle or ellipse zone rotated by a multiple of 90 degrees when the
\* cursor is right of and below the bottom_right corner its rotated bounding
\* box had at start_resize.
C9_BottomRightGrowsUnrotatedShape ==
    /\ (/\ LastIsArrow /\ BottomRightDraggedOutwards(arrow_items[last.item])
        /\ HasOriginalPoints(arrow_items[last.item])
        /\ ArrowWidth(The(arrow_items[last.item].original_points)) > 0
        /\ ArrowHeight(The(arrow_items[last.item].original_points)) > 0
        /\ ~ArrowTickTooSmall(arrow_items[last.item], last.corner, last.pos))
       => LET item == arrow_items[last.item]
          IN  /\ ArrowWidth(item.arrow_points) > ArrowWidth(The(item.original_points))
              /\ ArrowHeight(item.arrow_points) > ArrowHeight(The(item.original_points))
    /\ (/\ LastIsZone /\ BottomRightDraggedOutwards(zone_items[last.item])
        /\ HasOriginalRect(zone_items[last.item])
        /\ zone_items[last.item].rotation_angle \in {0, 90}
        /\ last.pos.x > CornerOf(StartBounds(zone_items[last.item]), "bottom_right").x
        /\ last.pos.y > CornerOf(StartBounds(zone_items[last.item]), "bottom_right").y)
       => LET item == zone_items[last.item]
          IN  /\ item.rect.w > The(item.original_rect).w
              /\ item.rect.h > The(item.original_rect).h

\* a rectangle zone rotated by 90 degrees has been resized by its bottom_right
\* handle, the cursor right of and below the corner the handle sat on
C9_Witness ==
    /\ LastIsZone
    /\ BottomRightDraggedOutwards(zone_items[last.item])
    /\ HasOriginalRect(zone_items[last.item])
    /\ zone_items[last.item].kind = "rectangle"
    /\ zone_items[last.item].rotation_angle = 90
    /\ last.pos.x > CornerOf(StartBounds(zone_items[last.item]), "bottom_right").x
    /\ last.pos.y > CornerOf(StartBounds(zone_items[last.item]), "bottom_right").y
    /\ zone_items[last.item].rect # The(zone_items[last.item].original_rect)

-----------------------------------------------------------------------------
(* Tactical simulation: arrows associated with players *)

MaxTacticalArrows == 2   \* records the tactical manager holds in one run

\* ArrowAnnotationManager.set_style
Arrow_manager_set_style(w, style) ==
    IF w.am.selected_arrow # 0
    THEN [w EXCEPT !.arrow_items[w.am.selected_arrow].arrow_style = style]
    ELSE [w EXCEPT !.am.arrow_style = style]

\* MainWindow._on_arrow_style_changed, for the arrow of the properties popup
on_arrow_style_changed(w, arrow, style) ==
    LET w1 == Arrow_manager_set_style([w EXCEPT !.am.selected_arrow = arrow], style)
    IN  [w1 EXCEPT !.arrow_items[w1.am.selected_arrow].arrow_style = style]

TacticalWithinBounds(w) ==
    /\ WithinBounds(w)
    /\ Len(w.tm.tactical_arrows) <= MaxTacticalArrows

\* the style combo of the toolbar, no arrow selected
StyleChosen ==
    \E style \in ArrowStyles :
        /\ annotation_manager.selected_arrow = 0
        /\ Commit(Arrow_manager_set_style(World, style),
                  Call("set_style", "arrow", 0, "None", NoPos, style, "None"))

\* the style combo of the properties popup of an arrow
ArrowStyleChanged ==
    \E a \in DOMAIN arrow_items, style \in ArrowStyles :
        /\ arrow_items[a].in_scene
        /\ Commit(on_arrow_style_changed(World, a, style),
                  Call("set_style", "arrow", a, "None", NoPos, style, "None"))

\* MainWindow._on_from_player_selected
FromPlayerSelected ==
    \E a \in DOMAIN arrow_items, player_id \in Players, f \in Frames :
        LET w == associate_arrow_with_player(World, a, player_id, f)
        IN  /\ arrow_items[a].in_scene
            /\ TacticalWithinBounds(w)
            /\ Commit(w, Call("associate_arrow_with_player", "arrow", a, "None",
                              NoPos, player_id, w.ret))

\* MainWindow._on_to_player_selected
ToPlayerSelected ==
    \E player_id \in Players :
        LET w == set_pass_receiver(World, player_id)
        IN  /\ TacticalWithinBounds(w)
            /\ Commit(w, Call("set_pass_receiver", "None", 0, "None", NoPos,
                              player_id, w.ret))

\* a left press of the arrow tool, with the player dialogs in simulation mode
TacticalArrowLeftPress ==
    /\ current_tool = "arrow"
    /\ \E from_id \in Players \cup {NoPlayer},
          to_id \in Players \cup {NoPlayer}, f \in Frames :
           LET w == ArrowToolLeftPress(World,
                                       GesturePoint(Len(annotation_manager.arrow_points)),
                                       from_id, to_id, f)
           IN  /\ ~simulation_mode => (from_id = NoPlayer /\ to_id = NoPlayer)
               /\ TacticalWithinBounds(w)
               /\ Commit(w, Call("add_point", "arrow", 0, "None", NoPos, "None", "None"))

\* the arrow tool button
ArrowToolButton ==
    LET w == set_tool_mode(World, "arrow")
    IN  /\ WithinBounds(w)
        /\ Commit(w, Call("set_tool_mode", "None", 0, "None", NoPos, "arrow", "None"))

NextTactical ==
    \/ ToggleSimulationMode
    \/ ArrowToolButton
    \/ StyleChosen
    \/ ArrowStyleChanged
    \/ TacticalArrowLeftPress
    \/ FromPlayerSelected
    \/ ToPlayerSelected

SpecTactical == Init /\ [][NextTactical]_vars

\* the action type the styles stand for
ActionOfStyle(style) ==
    CASE style = "solid"  -> "pass"
      [] style = "dotted" -> "run"
      [] style = "zigzag" -> "dribble"

\* C10: associate_arrow_with_player appends one record to the tactical arrows,
\* for the arrow and the player it was called with, whose action type is pass
\* for a solid arrow, run for a dotted one and dribble for a zigzag one; it
\* returns waiting_for_receiver exactly when that action type is pass, and
\* associated otherwise.
C10_AssociateAppendsTypedRecord ==
    [][last'.op = "associate_arrow_with_player"
       => LET before == tactical_manager.tactical_arrows
              after == tactical_manager'.tactical_arrows
              record == after[Len(after)]
          IN  /\ Len(after) = Len(before) + 1
              /\ SubSeq(after, 1, Len(before)) = before
              /\ record.arrow_id = last'.item
              /\ record.player_id = last'.arg
              /\ record.action_type = ActionOfStyle(arrow_items[last'.item].arrow_style)
              /\ (last'.ret = "waiting_for_receiver") <=> (record.action_type = "pass")
              /\ record.action_type # "pass" => last'.ret = "associated"]_vars

\* a zigzag arrow that already had a record has been associated once more
C10_Witness ==
    /\ last.op = "associate_arrow_with_player"
    /\ last.ret = "associated"
    /\ Len(tactical_manager.tactical_arrows) = 2
    /\ tactical_manager.tactical_arrows[2].action_type = "dribble"
    /\ tactical_manager.tactical_arrows[1].action_type = "pass"

-----------------------------------------------------------------------------
(* Associations of several arrows: receivers and removal *)

\* CustomArrowItem.cleanup_handles
Arrow_cleanup_handles(item) ==
    [item EXCEPT !.resize_handles = FALSE,
                 !.handles_in_scene = FALSE,
                 !.handles_visible = FALSE]

\* MainWindow._on_arrow_delete_requested, for the arrow of the properties popup
on_arrow_delete_requested(w, arrow) ==
    LET w1 == [w EXCEPT !.arrow_items[arrow] =
                            [Arrow_cleanup_handles(@) EXCEPT !.in_scene = FALSE],
                        !.am.arrows = RemoveFirst(@, arrow)]
    IN  Arrow_clear_selection(remove_arrow_association(w1, arrow))

\* the delete button of the properties popup of an arrow; the call is noted
\* with the receiver the arrow's pass had
ArrowDeleteRequested ==
    \E a \in DOMAIN arrow_items :
        /\ arrow_items[a].in_scene
        /\ Commit(on_arrow_delete_requested(World, a),
                  Call("remove_arrow_association", "arrow", a, "None", NoPos,
                       IF a \in DOMAIN tactical_manager.pass_receivers
                       THEN tactical_manager.pass_receivers[a] ELSE NoPlayer,
                       "None"))

NextAssociation ==
    \/ StyleChosen
    \/ ArrowGesture
    \/ FromPlayerSelected
    \/ ToPlayerSelected
    \/ ArrowDeleteRequested

SpecAssociation == Init /\ [][NextAssociation]_vars

\* the pending passes of the list: the positions of the passes without receiver
PendingPasses(tas) ==
    {i \in 1..Len(tas) : tas[i].action_type = "pass" /\ ~IsSome(tas[i].receiver_id)}

\* C11: a set_pass_receiver(r) that succeeds resolves one pass: the pending
\* pass associated last gets receiver r, every other record stays as it was,
\* and one link from that pass's player to r for that pass's arrow is appended
\* to the end of the possession chain.
C11_ReceiverResolvesLatestPendingPass ==
    [][(last'.op = "set_pass_receiver" /\ last'.ret = "True")
       => LET before == tactical_manager.tactical_arrows
              after == tactical_manager'.tactical_arrows
              chain == tactical_manager.ball_possession_chain
              pending == PendingPasses(before)
          IN  /\ pending # {}
              /\ LET i == CHOOSE j \in pending : \A k \in pending : k <= j
                 IN  /\ Len(after) = Len(before)
                     /\ after[i] = [before[i] EXCEPT !.receiver_id = Some(last'.arg)]
                     /\ \A k \in 1..Len(before) : k # i => after[k] = before[k]
                     /\ tactical_manager'.ball_possession_chain =
                            Append(chain, [from_player |-> before[i].player_id,
                                           to_player   |-> last'.arg,
                                           arrow_id    |-> before[i].arrow_id])]_vars

\* set_pass_receiver has resolved the later of two pending passes of two players
C11_Witness ==
    /\ last.op = "set_pass_receiver"
    /\ last.ret = "True"
    /\ Len(tactical_manager.tactical_arrows) = 2
    /\ tactical_manager.tactical_arrows[1].action_type = "pass"
    /\ ~IsSome(tactical_manager.tactical_arrows[1].receiver_id)
    /\ IsSome(tactical_manager.tactical_arrows[2].receiver_id)
    /\ tactical_manager.tactical_arrows[1].player_id
           # tactical_manager.tactical_arrows[2].player_id
    /\ Len(tactical_manager.ball_possession_chain) = 1

\* C12: set_pass_receiver called while no pass is pending (there is no pass,
\* or every pass has its receiver) returns False and leaves the tactical
\* arrows, the pass receivers and the possession chain as they were.
C12_NoPendingPassIsRefused ==
    [][(last'.op = "set_pass_receiver"
        /\ PendingPasses(tactical_manager.tactical_arrows) = {})
       => /\ last'.ret = "False"
          /\ tactical_manager'.tactical_arrows = tactical_manager.tactical_arrows
          /\ tactical_manager'.pass_receivers = tactical_manager.pass_receivers
          /\ tactical_manager'.ball_possession_chain
                 = tactical_manager.ball_possession_chain]_vars

\* set_pass_receiver has been refused while the one pass had its receiver
C12_Witness ==
    /\ last.op = "set_pass_receiver"
    /\ last.ret = "False"
    /\ Len(tactical_manager.tactical_arrows) >= 1
    /\ \E i \in 1..Len(tactical_manager.tactical_arrows) :
           /\ tactical_manager.tactical_arrows[i].action_type = "pass"
           /\ IsSome(tactical_manager.tactical_arrows[i].receiver_id)
    /\ PendingPasses(tactical_manager.tactical_arrows) = {}

\* the entries of a dict other than the one of key k
DictWithout(d, k) == [x \in (DOMAIN d) \ {k} |-> d[x]]

\* C13: after remove_arrow_association(arrow), whatever the state before, the
\* tactical arrows, the player associations, the pass receivers and the
\* possession chain hold no entry of that arrow, and the entries of every
\* other arrow are what they were.
C13_RemovalCleansEveryCollection ==
    [][last'.op = "remove_arrow_association"
       => LET arrow == last'.item
              Other(r) == r.arrow_id # arrow
          IN  /\ tactical_manager'.tactical_arrows
                     = SelectSeq(tactical_manager.tactical_arrows, Other)
              /\ tactical_manager'.ball_possession_chain
                     = SelectSeq(tactical_manager.ball_possession_chain, Other)
              /\ tactical_manager'.player_associations
                     = DictWithout(tactical_manager.player_associations, arrow)
              /\ tactical_manager'.pass_receivers
                     = DictWithout(tactical_manager.pass_receivers, arrow)
              /\ \A i \in 1..Len(tactical_manager'.tactical_arrows) :
                     tactical_manager'.tactical_arrows[i].arrow_id # arrow
              /\ \A i \in 1..Len(tactical_manager'.ball_possession_chain) :
                     tactical_manager'.ball_possession_chain[i].arrow_id # arrow
              /\ arrow \notin DOMAIN tactical_manager'.player_associations
              /\ arrow \notin DOMAIN tactical_manager'.pass_receivers]_vars

\* an arrow with a resolved pass has been removed while another arrow keeps
\* its record, its receiver and its link
C13_Witness ==
    /\ last.op = "remove_arrow_association"
    /\ Len(tactical_manager.tactical_arrows) = 1
    /\ tactical_manager.tactical_arrows[1].arrow_id # last.item
    /\ Len(tactical_manager.ball_possession_chain) = 1
    /\ DOMAIN tactical_manager.pass_receivers # {}
    /\ last.arg # NoPlayer

-----------------------------------------------------------------------------
(* Simulated trajectories: TacticalSimulationManager over the tracking data *)

FPS == 25
PLAYER_OUTER_RADIUS_BASE == 1600

\* exact fractions, for the progress of a frame and what is computed from it
RECURSIVE GCD(_, _)
GCD(a, b) == IF b = 0 THEN a ELSE GCD(b, a % b)

Frac(n, d) == LET g == GCD(Abs(n), d) IN [n |-> n \div g, d |-> d \div g]
FracMul(a, b) == Frac(a.n * b.n, a.d * b.d)
FracDiv(a, b) == Frac(a.n * b.d, a.d * b.n)
FracLe(a, b) == a.n * b.d <= b.n * a.d
FracMin(a, b) == IF FracLe(a, b) THEN a ELSE b
FracMax(a, b) == IF FracLe(a, b) THEN b ELSE a
Whole(n) == Frac(n, 1)
Metres(len) == Frac(len, Scale)

\* start + fraction * (end - start), on both axes
Interpolate(start_pos, end_pos, fraction) ==
    Point(start_pos.x + RoundDiv(fraction.n * (end_pos.x - start_pos.x), fraction.d),
          start_pos.y + RoundDiv(fraction.n * (end_pos.y - start_pos.y), fraction.d))

\* the position of a player or of the ball at a frame, or NaN; a frame past
\* the end of the data raises IndexError
Tracked(xy, who, frame) ==
    IF who \in DOMAIN xy /\ frame + 1 \in DOMAIN xy[who] THEN xy[who][frame + 1] ELSE NaN

_get_real_player_position(player_id, frame, xy) ==
    IF player_id \in Players /\ IsSome(Tracked(xy, player_id, frame))
    THEN The(Tracked(xy, player_id, frame))
    ELSE Point(0, 0)

Distance(p, q) == Hypot(p.x - q.x, p.y - q.y)

\* the roster in iteration order: the home ids, then the away ids
Roster == HomeIds \o AwayIds

\* the loop of the two proximity lookups over the first i players of the
\* roster: the closest player so far and its distance, infinity being -1
RECURSIVE ClosestAmong(_, _, _, _, _)
ClosestAmong(i, pos, frame, xy, max_distance) ==
    IF i = 0 THEN [player |-> NoPlayer, distance |-> -1]
    ELSE LET sofar == ClosestAmong(i - 1, pos, frame, xy, max_distance)
             distance == Distance(pos, _get_real_player_position(Roster[i], frame, xy))
         IN  IF (sofar.distance = -1 \/ distance < sofar.distance)
                /\ (max_distance = -1 \/ distance <= max_distance)
             THEN [player |-> Roster[i], distance |-> distance]
             ELSE sofar

_find_closest_player_to_ball(ball_pos, frame, xy) ==
    ClosestAmong(Len(Roster), ball_pos, frame, xy, -1).player

find_player_at_position(click_pos, current_frame, xy) ==
    ClosestAmong(Len(Roster), click_pos, current_frame, xy,
                 PLAYER_OUTER_RADIUS_BASE).player

\* the caps of the run and of the dribble taken for one another
MaxSpeed_swapped(action_type) ==
    CASE action_type = "run"     -> 4
      [] action_type = "dribble" -> 8
      [] OTHER                   -> 0

\* the highest speed of a player's action in metres per second; none for a pass
MaxSpeed(action_type) ==
    CASE action_type = "run"     -> 8
      [] action_type = "dribble" -> 4
      [] OTHER                   -> 0

\* _calculate_player_position_with_speed: the progress along the arrow, the
\* progress of the interval unless the speed the arrow asks for is above the
\* highest speed of the action
ActualProgress(tactical_arrow, progress, interval_seconds) ==
    LET max_allowed_speed == MaxSpeed(tactical_arrow.action_type)
        arrow_length == Metres(tactical_arrow.length)
    IN  IF max_allowed_speed > 0
           /\ ~FracLe(arrow_length, Whole(max_allowed_speed * interval_seconds))
        THEN FracMin(FracDiv(FracMul(Whole(max_allowed_speed * interval_seconds),
                                     progress),
                             arrow_length),
                     Whole(1))
        ELSE progress

_calculate_player_position_with_speed(tactical_arrow, progress, interval_seconds) ==
    Interpolate(tactical_arrow.start_pos, tactical_arrow.end_pos,
                ActualProgress(tactical_arrow, progress, interval_seconds))

Sample(pos, frame) == [x |-> pos.x, y |-> pos.y, frame |-> frame]

\* int(value) of a fraction that is not negative
Floor(a) == a.n \div a.d

_get_player_position_at_progress(tm, player_id, progress, interval_seconds, current_frame, xy) ==
    IF player_id \in DOMAIN tm.simulated_player_positions
       /\ tm.simulated_player_positions[player_id] # <<>>
    THEN LET positions == tm.simulated_player_positions[player_id]
             target_index == Min(Floor(FracMul(progress, Whole(Len(positions) - 1))),
                                 Len(positions) - 1)
             latest_pos == positions[target_index + 1]
         IN  Point(latest_pos.x, latest_pos.y)
    ELSE _get_real_player_position(
             player_id,
             current_frame + Floor(FracMul(progress, Whole(interval_seconds * FPS))),
             xy)

\* the share of the interval the first pass takes, without the cap of 0.8
PassDurationRatio_uncapped(first_pass, interval_seconds) ==
    LET pass_length == Metres(first_pass.length)
        pass_speed == FracMin(Whole(25), FracMax(Whole(15), FracDiv(pass_length, Whole(2))))
    IN  FracDiv(FracDiv(pass_length, pass_speed), Whole(interval_seconds))

\* the share of the interval the first pass takes: its length over its speed,
\* over the interval, at most 0.8
PassDurationRatio(first_pass, interval_seconds) ==
    LET pass_length == Metres(first_pass.length)
        pass_speed == FracMin(Whole(25), FracMax(Whole(15), FracDiv(pass_length, Whole(2))))
        pass_duration == FracDiv(pass_length, pass_speed)
    IN  FracMin(FracDiv(pass_duration, Whole(interval_seconds)), Frac(4, 5))

\* the passes with the latest first
Passes_latest_first(tm) ==
    LET passes == SelectSeq(tm.tactical_arrows, LAMBDA ta : ta.action_type = "pass")
    IN  [i \in 1..Len(passes) |-> passes[Len(passes) + 1 - i]]

Passes(tm) == SelectSeq(tm.tactical_arrows, LAMBDA ta : ta.action_type = "pass")

_calculate_ball_position_with_speed(tm, initial_ball_pos, initial_holder, passes, progress, interval_seconds, current_frame, xy) ==
    IF passes = <<>>
    THEN IF initial_holder \in DOMAIN tm.simulated_player_positions
            /\ tm.simulated_player_positions[initial_holder] # <<>>
         THEN LET positions == tm.simulated_player_positions[initial_holder]
                  latest_pos == positions[Len(positions)]
              IN  Point(latest_pos.x, latest_pos.y)
         ELSE initial_ball_pos
    ELSE LET first_pass == passes[1]
         IN  IF IsSome(first_pass.receiver_id)
             THEN LET pass_duration_ratio == PassDurationRatio(first_pass, interval_seconds)
                      receiver_pos == _get_player_position_at_progress(
                                          tm, The(first_pass.receiver_id), progress,
                                          interval_seconds, current_frame, xy)
                  IN  IF FracLe(progress, pass_duration_ratio)
                      THEN Interpolate(
                               _calculate_player_position_with_speed(
                                   first_pass, progress, interval_seconds),
                               receiver_pos,
                               FracDiv(progress, pass_duration_ratio))
                      ELSE receiver_pos
             ELSE initial_ball_pos

\* the ball's position at the start frame, or None when it is not tracked
BallAt(current_frame, xy) == Tracked(xy, "Ball", current_frame)

\* the initial ball holder, or NoPlayer when the ball is not tracked
BallHolder(current_frame, xy) ==
    IF IsSome(BallAt(current_frame, xy))
    THEN _find_closest_player_to_ball(The(BallAt(current_frame, xy)), current_frame, xy)
    ELSE NoPlayer

\* a QPointF is false when both its coordinates are zero
Truthy(pos) == pos # Point(0, 0)

\* the tactical arrows of a player, in list order
ArrowsOf(tm, player_id) ==
    SelectSeq(tm.tactical_arrows, LAMBDA ta : ta.player_id = player_id)

\* progress = frame_offset / max(1, total_frames - 1)
Progress(frame_offset, interval_seconds) ==
    Frac(frame_offset, Max(1, interval_seconds * FPS - 1))

\* the list of a player once the loop over the tactical arrows has run in
\* `frames` frames: in every frame, one sample for each arrow of the player
PlayerSamples(tm, player_id, frames, interval_seconds, current_frame) ==
    LET arrows == ArrowsOf(tm, player_id)
    IN  [i \in 1..(frames * Len(arrows)) |->
            LET frame_offset == (i - 1) \div Len(arrows)
                tactical_arrow == arrows[((i - 1) % Len(arrows)) + 1]
            IN  Sample(_calculate_player_position_with_speed(
                           tactical_arrow, Progress(frame_offset, interval_seconds),
                           interval_seconds),
                       current_frame + frame_offset)]

\* the lists of the players once the loop has run in `frames` frames
PlayerLists(tm, frames, interval_seconds, current_frame) ==
    [player_id \in {tm.tactical_arrows[i].player_id : i \in DOMAIN tm.tactical_arrows} |->
        PlayerSamples(tm, player_id, frames, interval_seconds, current_frame)]

\* the manager in the frame frame_offset, once the loop over the tactical
\* arrows is through and before the ball is placed: of the lists the whole
\* loop builds, what the frames up to this one have appended
AfterPlayerLoop(tm, lists, frame_offset) ==
    [tm EXCEPT !.simulated_player_positions =
        [player_id \in DOMAIN lists |->
            SubSeq(lists[player_id], 1,
                   (frame_offset + 1) * Len(ArrowsOf(tm, player_id)))]]

\* the ball sample appended in the frame frame_offset
BallSample(tm, lists, frame_offset, interval_seconds, current_frame, xy) ==
    Sample(_calculate_ball_position_with_speed(
               AfterPlayerLoop(tm, lists, frame_offset),
               The(BallAt(current_frame, xy)), BallHolder(current_frame, xy), Passes(tm),
               Progress(frame_offset, interval_seconds), interval_seconds,
               current_frame, xy),
           current_frame + frame_offset)

calculate_simulated_trajectories(w, interval_seconds, current_frame, xy) ==
    LET tm0 == [w.tm EXCEPT !.simulated_player_positions = EmptyDict,
                            !.simulated_ball_positions = <<>>]
        total_frames == interval_seconds * FPS
        ball_current_pos == BallAt(current_frame, xy)
        ball_holder == BallHolder(current_frame, xy)
        lists == PlayerLists(tm0, total_frames, interval_seconds, current_frame)
    IN  [w EXCEPT !.tm =
            IF tm0.tactical_arrows = <<>> THEN tm0
            ELSE [tm0 EXCEPT
                    !.simulated_player_positions = lists,
                    !.simulated_ball_positions =
                        IF IsSome(ball_current_pos) /\ Truthy(The(ball_current_pos))
                           /\ ball_holder # NoPlayer
                        THEN [i \in 1..total_frames |->
                                 BallSample(tm0, lists, i - 1, interval_seconds,
                                            current_frame, xy)]
                        ELSE <<>>]]

MaxInterval == 2   \* seconds of the longest simulation interval
Intervals == 1..MaxInterval

\* where an arrow drawn for the simulation ends: 5 or 30 metres from its start
ArrowEnds == {Point(4 * Scale, 3 * Scale), Point(24 * Scale, 18 * Scale)}

\* the arrows are drawn, then the trajectories are calculated: a calculation
\* starts by clearing what the last one left
NotSimulated ==
    /\ tactical_manager.simulated_player_positions = EmptyDict
    /\ tactical_manager.simulated_ball_positions = <<>>

EnterSimulationMode ==
    /\ ~simulation_mode
    /\ Commit(update_scene(toggle_simulation_mode(World), 0, xy_objects),
              Call("toggle_simulation_mode", "None", 0, "None", NoPos, "None", "None"))

\* an arrow drawn in simulation mode: its style is picked, the arrow tool is
\* taken and the pitch is clicked twice; the second click finishes the arrow
\* and asks for the player it starts from and, for a pass, the receiver; the
\* player found at the start of the arrow is the one the first dialog offers,
\* and the call records it as its result
ArrowDrawnInSimulation ==
    \E style \in ArrowStyles, p \in ArrowEnds, from_id \in Players,
       to_id \in Players \cup {NoPlayer}, f \in Frames :
        LET w1 == set_tool_mode(Arrow_manager_set_style(World, style), "arrow")
            w2 == ArrowToolLeftPress(w1, GesturePoint(0), from_id, to_id, f)
            w == ArrowToolLeftPress(w2, p, from_id, to_id, f)
        IN  /\ simulation_mode
            /\ NotSimulated
            /\ annotation_manager.selected_arrow = 0
            /\ Len(arrow_items) < ShapesPerManager
            /\ Len(w.tm.tactical_arrows) <= MaxTacticalArrows
            /\ Commit(w, Call("find_player_at_position", "arrow", w.ret_item, "None",
                              GesturePoint(0), from_id,
                              find_player_at_position(GesturePoint(0), f, xy_objects)))

\* the call records the interval as its item and, when there are tactical
\* arrows to simulate, the ball holder as its result
CalculateSimulatedTrajectories ==
    \E interval_seconds \in Intervals, current_frame \in Frames :
        /\ interval_seconds \in Intervals
        /\ Commit(calculate_simulated_trajectories(World, interval_seconds,
                                                   current_frame, xy_objects),
                  Call("calculate_simulated_trajectories", "None", interval_seconds,
                       "None", NoPos, "None",
                       IF tactical_manager.tactical_arrows = <<>> THEN NoPlayer
                       ELSE BallHolder(current_frame, xy_objects)))

InitSimulation == \E i \in DOMAIN Trackings : StartWith(Constructed, Trackings[i])

NextSimulation ==
    \/ EnterSimulationMode
    \/ ArrowDrawnInSimulation
    \/ CalculateSimulatedTrajectories

SpecSimulation == InitSimulation /\ [][NextSimulation]_vars

-----------------------------------------------------------------------------
(* The trajectories a calculation leaves *)

Simulated == last.op = "calculate_simulated_trajectories"
SimInterval == last.item
SimFrames == SimInterval * FPS

\* the sample of the i-th tactical arrow in the frame f: the player's list
\* holds, frame after frame, one sample for each arrow of the player
SampleOf(i, f) ==
    LET tas == tactical_manager.tactical_arrows
        player_id == tas[i].player_id
        k == Len(ArrowsOf(tactical_manager, player_id))
        j == Cardinality({n \in 1..i : tas[n].player_id = player_id})
    IN  tactical_manager.simulated_player_positions[player_id][f * k + j]

PosOf(sample) == Point(sample.x, sample.y)

RunsOrDribbles(i) == tactical_manager.tactical_arrows[i].action_type \in {"run", "dribble"}
CapOf(i) == IF tactical_manager.tactical_arrows[i].action_type = "run" THEN 8 ELSE 4
TooFast(i) == tactical_manager.tactical_arrows[i].length > CapOf(i) * SimInterval * Scale

\* min(1, cap * interval * p / length) at the progress p = f / (frames - 1)
CappedFraction(i, f) ==
    FracMin(Whole(1),
            Frac(CapOf(i) * SimInterval * f * Scale,
                 tactical_manager.tactical_arrows[i].length * (SimFrames - 1)))

\* C14: a run (cap 8 m/s) or dribble (cap 4 m/s) whose length over the
\* interval exceeds its cap is, at every sampled progress p, at
\* start + min(1, cap * interval * p / length) * (end - start), and so at
\* progress 1 strictly before the end of the arrow; a run or dribble within
\* its cap is at the end of the arrow at progress 1.
C14_SpeedCapLimitsProgress ==
    Simulated =>
        \A i \in DOMAIN tactical_manager.tactical_arrows :
            LET ta == tactical_manager.tactical_arrows[i]
            IN  RunsOrDribbles(i) =>
                    IF TooFast(i)
                    THEN /\ \A f \in 0..(SimFrames - 1) :
                               PosOf(SampleOf(i, f)) =
                                   Interpolate(ta.start_pos, ta.end_pos, CappedFraction(i, f))
                         /\ ~FracLe(Whole(1), CappedFraction(i, SimFrames - 1))
                         /\ PosOf(SampleOf(i, SimFrames - 1)) # ta.end_pos
                         /\ SampleOf(i, SimFrames - 1).x < ta.end_pos.x
                    ELSE PosOf(SampleOf(i, SimFrames - 1)) = ta.end_pos

\* a calculation with a run that is too fast for the interval and a run or
\* dribble that is not
C14_Witness ==
    /\ Simulated
    /\ \E i, j \in DOMAIN tactical_manager.tactical_arrows :
           /\ RunsOrDribbles(i) /\ TooFast(i)
           /\ PosOf(SampleOf(i, SimFrames - 1)) # tactical_manager.tactical_arrows[i].end_pos
           /\ RunsOrDribbles(j) /\ ~TooFast(j)
           /\ PosOf(SampleOf(j, SimFrames - 1)) = tactical_manager.tactical_arrows[j].end_pos

IsPass(i) == tactical_manager.tactical_arrows[i].action_type = "pass"

\* C15: the passer does not move along the pass arrow: the sample of a pass
\* arrow is the same position in every frame of the interval.
C15_PasserStandsStill ==
    Simulated =>
        \A i \in DOMAIN tactical_manager.tactical_arrows :
            IsPass(i) =>
                \A f \in 0..(SimFrames - 1) :
                    PosOf(SampleOf(i, f)) = PosOf(SampleOf(i, 0))

FirstPass == Passes(tactical_manager)[1]
FirstPassResolved ==
    /\ Passes(tactical_manager) # <<>>
    /\ IsSome(FirstPass.receiver_id)
Receiver == The(FirstPass.receiver_id)
BallSamples == tactical_manager.simulated_ball_positions
HasBallSamples == Len(BallSamples) = SimFrames

\* the frame f lies after the sub-window of the first pass
WindowClosed(f) ==
    ~FracLe(Progress(f, SimInterval), PassDurationRatio(FirstPass, SimInterval))

\* C16: with a resolved first pass, in every sampled frame after the pass
\* sub-window has closed the ball is where the receiver is simulated to be in
\* that same frame, or where the receiver is tracked in that frame when the
\* receiver has no arrow.
C16_BallFollowsReceiverFrameByFrame ==
    (Simulated /\ FirstPassResolved /\ HasBallSamples) =>
        \A f \in 0..(SimFrames - 1) :
            WindowClosed(f) =>
                IF Receiver \in DOMAIN tactical_manager.simulated_player_positions
                THEN \E n \in DOMAIN tactical_manager.simulated_player_positions[Receiver] :
                         tactical_manager.simulated_player_positions[Receiver][n]
                             = BallSamples[f + 1]
                ELSE IsSome(Tracked(xy_objects, Receiver, BallSamples[f + 1].frame))
                     => PosOf(BallSamples[f + 1])
                            = The(Tracked(xy_objects, Receiver, BallSamples[f + 1].frame))

FirstPassIndex ==
    CHOOSE i \in DOMAIN tactical_manager.tactical_arrows :
        IsPass(i) /\ \A j \in 1..(i - 1) : ~IsPass(j)

\* r = min((L / min(25, max(15, L / 2))) / T, 0.8)
SubWindow ==
    LET L == Frac(FirstPass.length, Scale)
        speed == FracMin(Whole(25), FracMax(Whole(15), Frac(FirstPass.length, 2 * Scale)))
    IN  FracMin(FracDiv(FracDiv(L, speed), Whole(SimInterval)), Frac(8, 10))

\* where the simulation takes the receiver to be in the frame f: in the
\* receiver's list as it is in that frame, the sample at the progress of the
\* frame; for a receiver without an arrow, where the tracking data have it
ReceiverPosition(f) ==
    IF Receiver \in DOMAIN tactical_manager.simulated_player_positions
    THEN LET held == (f + 1) * Len(ArrowsOf(tactical_manager, Receiver))
         IN  PosOf(tactical_manager.simulated_player_positions[Receiver]
                       [((f * (held - 1)) \div (SimFrames - 1)) + 1])
    ELSE _get_real_player_position(Receiver, (f * SimFrames) \div (SimFrames - 1),
                                   xy_objects)

SeveralPasses == Len(Passes(tactical_manager)) > 1
LaterPass(i) == IsPass(i) /\ i # FirstPassIndex

\* the ball samples the same calculation leaves when the passes after the
\* first are not in the list
BallSamplesOfFirstPassAlone ==
    LET kept == {i \in DOMAIN tactical_manager.tactical_arrows : ~LaterPass(i)}
        Nth(n) == CHOOSE i \in kept : Cardinality({j \in kept : j <= i}) = n
        alone == [World EXCEPT !.tm.tactical_arrows =
                     [n \in 1..Cardinality(kept) |-> tactical_manager.tactical_arrows[Nth(n)]]]
    IN  calculate_simulated_trajectories(alone, SimInterval, 0, xy_objects)
            .tm.simulated_ball_positions

\* C18 as stated: with several passes the ball samples depend on the first
\* pass only; the later passes, resolved or not, change no ball sample.
C18_LaterPassesNeverChangeBall ==
    (Simulated /\ SeveralPasses) => BallSamples = BallSamplesOfFirstPassAlone

\* a later pass made by the receiver of the first pass
ReceiverPassesOn ==
    /\ IsSome(tactical_manager.tactical_arrows[FirstPassIndex].receiver_id)
    /\ \E i \in DOMAIN tactical_manager.tactical_arrows :
           /\ LaterPass(i)
           /\ tactical_manager.tactical_arrows[i].player_id
                  = The(tactical_manager.tactical_arrows[FirstPassIndex].receiver_id)

\* C18: with several passes, only the first pass in list order is processed
\* for the ball: the later passes, resolved or not, change no ball sample,
\* unless one of them is made by the receiver of the first pass, whose
\* simulated positions the ball then follows.
C18_LaterPassesOfOthersNeverChangeBall ==
    (Simulated /\ SeveralPasses /\ ~ReceiverPassesOn)
        => BallSamples = BallSamplesOfFirstPassAlone

\* two passes, the first resolved and the later one not made by its
\* receiver, and the ball sampled in every frame
C18_Witness ==
    /\ Simulated /\ SeveralPasses /\ ~ReceiverPassesOn
    /\ FirstPassResolved /\ HasBallSamples
    /\ \E f \in 1..(SimFrames - 1) : PosOf(BallSamples[f + 1]) # PosOf(BallSamples[1])

BallTracked == IsSome(BallAt(0, xy_objects))
IsTracked(player_id) == IsSome(Tracked(xy_objects, player_id, 0))
DistanceToBall(player_id) ==
    Distance(The(BallAt(0, xy_objects)), The(Tracked(xy_objects, player_id, 0)))
RosterIndex(player_id) == CHOOSE i \in DOMAIN Roster : Roster[i] = player_id

\* C19: the initial ball holder is a tracked player, no tracked player is
\* nearer to the ball at the start frame, and of the players as near as the
\* holder none comes before it in the roster, home players first.
C19_HolderIsNearestTrackedPlayer ==
    (Simulated /\ tactical_manager.tactical_arrows # <<>> /\ BallTracked
        /\ \E q \in Players : IsTracked(q)) =>
        /\ last.ret \in Players
        /\ IsTracked(last.ret)
        /\ \A q \in Players :
               IsTracked(q) =>
                   \/ DistanceToBall(last.ret) < DistanceToBall(q)
                   \/ /\ DistanceToBall(last.ret) = DistanceToBall(q)
                      /\ RosterIndex(last.ret) <= RosterIndex(q)

Looked == last.op = "find_player_at_position"

\* C20: a player whose position is not available at the frame is never the
\* answer of a proximity lookup: neither the player found at a position nor
\* the initial ball holder.
C20_LookupsSkipUntrackedPlayers ==
    ((Looked \/ Simulated) /\ last.ret \in Players) => IsTracked(last.ret)


-----------------------------------------------------------------------------
(* The life of an arrow: creation, selection, move, resize, style, deletion *)

\* CustomArrowItem.set_width and set_style, with refresh_visual restoring the
\* selection state
Arrow_set_width(item, width) ==
    Arrow_setSelected([item EXCEPT !.arrow_width = width], item.selected_state)

Arrow_set_style(item, style) ==
    Arrow_setSelected([item EXCEPT !.arrow_style = style], item.selected_state)

\* ArrowAnnotationManager.set_color and set_width
Arrow_manager_set_color(w, color) ==
    IF w.am.selected_arrow # 0
    THEN [w EXCEPT !.arrow_items[w.am.selected_arrow] = Arrow_set_color(@, color)]
    ELSE [w EXCEPT !.am.arrow_color = color]

Arrow_manager_set_width(w, width) ==
    IF w.am.selected_arrow # 0
    THEN [w EXCEPT !.arrow_items[w.am.selected_arrow] = Arrow_set_width(@, width)]
    ELSE [w EXCEPT !.am.arrow_width = width]

\* MainWindow._on_arrow_color_changed and _on_arrow_width_changed, for the
\* arrow of the properties popup
on_arrow_color_changed(w, arrow, color) ==
    Arrow_manager_set_color([w EXCEPT !.am.selected_arrow = arrow], color)

on_arrow_width_changed(w, arrow, width) ==
    Arrow_manager_set_width([w EXCEPT !.am.selected_arrow = arrow], width)

\* ArrowAnnotationManager.delete_last_arrow: the handles of the arrow are
\* items of the scene of their own and stay where setSelected put them
delete_last_arrow(w) ==
    IF w.am.arrows # <<>>
    THEN LET arrow == w.am.arrows[Len(w.am.arrows)]
         IN  Arrow_clear_selection(
                 [w EXCEPT !.am.arrows = SubSeq(@, 1, Len(@) - 1),
                           !.arrow_items[arrow].in_scene = FALSE])
    ELSE Arrow_clear_selection(w)

MaxLifePoints == 3   \* points buffered for one curve in the life of an arrow
PopupColors == {"#FF0000"}
PopupWidths == {3}

\* a step of an arrow's life may add an arrow or a point only below the bounds
LifeWithinBounds(w) ==
    /\ Len(w.arrow_items) > Len(arrow_items) => Len(w.arrow_items) <= MaxArrows
    /\ Len(w.am.arrow_points) > Len(annotation_manager.arrow_points)
       => Len(w.am.arrow_points) <= MaxLifePoints

\* the select, arrow and curve tool buttons
LifeToolButton ==
    \E mode \in {"select", "arrow", "curve"} :
        LET w == set_tool_mode(World, mode)
        IN  /\ LifeWithinBounds(w)
            /\ Commit(w, Call("set_tool_mode", "None", 0, "None", NoPos, mode, "None"))

\* a left press of the arrow and curve tools
LifeLeftPress ==
    /\ current_tool \in {"arrow", "curve"}
    /\ LET w == ArrowToolLeftPress(World, GesturePoint(Len(annotation_manager.arrow_points)),
                                   NoPlayer, NoPlayer, 0)
       IN  /\ LifeWithinBounds(w)
           /\ Commit(w, Call("add_point", "arrow", 0, "None", NoPos, "None", "None"))

\* finish_arrow called with whatever the buffer holds
LifeFinishArrow ==
    LET w == finish_arrow(World)
    IN  /\ LifeWithinBounds(w)
        /\ Commit(w, Call("finish_arrow", "arrow", w.ret_item, "None", NoPos, "None", w.ret))

\* the colour and width controls of the properties popup of an arrow
ArrowColorChanged ==
    \E a \in DOMAIN arrow_items, color \in PopupColors :
        /\ arrow_items[a].in_scene
        /\ Commit(on_arrow_color_changed(World, a, color),
                  Call("set_color", "arrow", a, "None", NoPos, color, "None"))

ArrowWidthChanged ==
    \E a \in DOMAIN arrow_items, width \in PopupWidths :
        /\ arrow_items[a].in_scene
        /\ Commit(on_arrow_width_changed(World, a, width),
                  Call("set_width", "arrow", a, "None", NoPos, "None", "None"))

\* the style control of the properties popup, set to dotted
ArrowStyleDotted ==
    \E a \in DOMAIN arrow_items :
        /\ arrow_items[a].in_scene
        /\ Commit(on_arrow_style_changed(World, a, "dotted"),
                  Call("set_style", "arrow", a, "None", NoPos, "dotted", "None"))

DeleteLastArrow ==
    /\ TRUE
    /\ Commit(delete_last_arrow(World),
              Call("delete_last_arrow", "arrow",
                   IF annotation_manager.arrows # <<>>
                   THEN annotation_manager.arrows[Len(annotation_manager.arrows)] ELSE 0,
                   "None", NoPos, "None", "None"))

NextArrowLife ==
    \/ LifeToolButton
    \/ LifeLeftPress
    \/ LifeFinishArrow
    \/ PressOnArrow
    \/ PressOnEmpty
    \/ ArrowHandlePress
    \/ ArrowHandleMove
    \/ ArrowHandleRelease
    \/ ArrowPositionChange
    \/ ArrowColorChanged
    \/ ArrowStyleDotted
    \/ ArrowDeleteRequested
    \/ DeleteLastArrow

SpecArrowLife == Init /\ [][NextArrowLife]_vars

\* C21: every arrow of the arrow manager's collection has at least two points,
\* whatever creations, moves, resizes, style changes and deletions have run.
C21_ArrowsKeepTwoPoints ==
    \A a \in SeqToSet(annotation_manager.arrows) :
        Len(arrow_items[a].arrow_points) >= 2

\* a curve of three points has been resized and is still in the collection
C21_Witness ==
    /\ last.op = "update_resize"
    /\ last.item \in SeqToSet(annotation_manager.arrows)
    /\ Len(arrow_items[last.item].arrow_points) = 3
    /\ arrow_items[last.item].arrow_points # <<GesturePoint(0), GesturePoint(1), GesturePoint(2)>>

-----------------------------------------------------------------------------
(* The point buffers of the four managers, with the managers' methods called *)
(* directly                                                                  *)

\* add_point of the arrow manager at the pointer's next position; the call is
\* noted with the buffer it found
ArrowAddPoint ==
    LET w == Arrow_add_point(World, GesturePoint(Len(annotation_manager.arrow_points)))
    IN  /\ current_tool \in {"arrow", "curve"}
        /\ LifeWithinBounds(w)
        /\ Commit(w, Call("add_point", "arrow", 0, "None",
                          GesturePoint(Len(annotation_manager.arrow_points)),
                          annotation_manager.arrow_points, "None"))

\* add_point of the zone manager of the tool in use
ZoneAddPoint ==
    \E k \in ZoneKinds :
        /\ current_tool = ZoneTool(k)
        /\ Commit(Zone_add_point(World, k, GesturePoint(Len(zone_manager[k].zone_points))),
                  Call("add_point", k, 0, "None",
                       GesturePoint(Len(zone_manager[k].zone_points)),
                       zone_manager[k].zone_points, "None"))

\* update_preview of the zone manager of the tool in use
ZoneUpdatePreview ==
    \E k \in ZoneKinds :
        /\ current_tool = ZoneTool(k)
        /\ zone_manager[k].zone_points # <<>>
        /\ Commit(Zone_update_preview(World, k, GesturePoint(Len(zone_manager[k].zone_points))),
                  Call("update_preview", k, 0, "None", NoPos, "None", "None"))

\* finish_zone of the zone manager of the tool in use; the call is noted with
\* the zones the manager held and with what it returned
FinishZone ==
    \E k \in ZoneKinds :
        LET w == finish_zone(World, k)
        IN  /\ current_tool = ZoneTool(k)
            /\ WithinBounds(w)
            /\ Commit(w, Call("finish_zone", k, 0, "None", NoPos,
                              zone_manager[k].zones, w.ret))

NextBuffers ==
    \/ ToolButton
    \/ ArrowAddPoint
    \/ ZoneAddPoint
    \/ ZoneUpdatePreview
    \/ FinishZone
    \/ FinishArrow

SpecBuffers == Init /\ [][NextBuffers]_vars

\* the buffer of the manager the last call was made on
BufferOf(kind) ==
    IF kind = "arrow" THEN annotation_manager.arrow_points
    ELSE zone_manager[kind].zone_points

\* C22: the buffer of the arrow manager in non-curved mode and the buffer of
\* each zone manager never hold more than two points, and add_point on such a
\* buffer that holds two points leaves it as it was.
C22_BuffersHoldAtMostTwoPoints ==
    /\ ~annotation_manager.arrow_curved => Len(annotation_manager.arrow_points) <= 2
    /\ \A k \in ZoneKinds : Len(zone_manager[k].zone_points) <= 2
    /\ (/\ last.op = "add_point"
        /\ last.points = 2
        /\ last.kind = "arrow" => ~annotation_manager.arrow_curved)
       => BufferOf(last.kind) = last.arg

\* add_point has run on a full buffer of the arrow manager in non-curved mode
C22_Witness ==
    /\ last.op = "add_point"
    /\ last.kind = "arrow"
    /\ last.points = 2
    /\ ~annotation_manager.arrow_curved
    /\ annotation_manager.arrow_points = <<GesturePoint(0), GesturePoint(1)>>

\* C23: finish_zone called on a zone manager that has buffered fewer than two
\* points adds no zone and discards the pending creation: the buffer is empty
\* and no preview remains.
C23_ShortFinishDiscardsCreation ==
    (last.op = "finish_zone" /\ last.points < 2)
    => /\ zone_manager[last.kind].zones = last.arg
       /\ last.ret = "False"
       /\ zone_manager[last.kind].zone_points = <<>>
       /\ zone_manager[last.kind].zone_preview = None

-----------------------------------------------------------------------------
(* Shapes invalidated from outside the managers: the wrapped object of an   *)
(* item is gone and every call on it raises RuntimeError                    *)

MaxBoardShapes == 2   \* shapes of all kinds drawn on the board in one run

\* the gestures that draw an arrow and a zone, while the board has room
BoardArrowGesture ==
    /\ Len(arrow_items) + Len(zone_items) < MaxBoardShapes
    /\ Commit(DrawArrow(World),
              Call("finish_arrow", "arrow", 0, "None", NoPos, "None", "None"))

BoardZoneGesture ==
    \E k \in ZoneKinds :
        /\ Len(arrow_items) + Len(zone_items) < MaxBoardShapes
        /\ Commit(DrawZone(World, k),
                  Call("finish_zone", k, 0, "None", NoPos, "None", "None"))

\* something outside the managers destroys a shape they hold
ArrowInvalidated ==
    \E a \in SeqToSet(annotation_manager.arrows) :
        /\ ~arrow_items[a].deleted
        /\ Commit([World EXCEPT !.arrow_items[a].deleted = TRUE,
                                !.arrow_items[a].in_scene = FALSE],
                  Call("invalidate", "arrow", a, "None", NoPos, "None", "None"))

ZoneInvalidated ==
    \E k \in ZoneKinds : \E z \in SeqToSet(zone_manager[k].zones) :
        /\ ~zone_items[z].deleted
        /\ Commit([World EXCEPT !.zone_items[z].deleted = TRUE,
                                !.zone_items[z].in_scene = FALSE],
                  Call("invalidate", k, z, "None", NoPos, "None", "None"))

\* clear_selection and set_mode of the managers, called directly
ArrowClearSelection ==
    /\ annotation_manager.arrows # <<>>
    /\ Commit(Arrow_clear_selection(World),
              Call("clear_selection", "arrow", 0, "None", NoPos, "None", "None"))

ZoneClearSelection ==
    \E k \in ZoneKinds :
        /\ zone_manager[k].zones # <<>>
        /\ Commit(Zone_clear_selection(World, k),
                  Call("clear_selection", k, 0, "None", NoPos, "None", "None"))

ArrowSetMode ==
    /\ annotation_manager.arrows # <<>>
    /\ Commit(Arrow_set_mode(World, "select"),
              Call("set_mode", "arrow", 0, "None", NoPos, "select", "None"))

ZoneSetMode ==
    \E k \in ZoneKinds :
        /\ zone_manager[k].zones # <<>>
        /\ Commit(Zone_set_mode(World, k, "select"),
                  Call("set_mode", k, 0, "None", NoPos, "select", "None"))

NextInvalidation ==
    \/ BoardArrowGesture
    \/ BoardZoneGesture
    \/ SelectArrow
    \/ SelectZone
    \/ ArrowInvalidated
    \/ ZoneInvalidated
    \/ ArrowClearSelection
    \/ ZoneClearSelection
    \/ ArrowSetMode
    \/ ZoneSetMode

SpecInvalidation == Init /\ [][NextInvalidation]_vars

\* the collection, the items and the selected reference of a manager
CollectionOf(kind) ==
    IF kind = "arrow" THEN annotation_manager.arrows ELSE zone_manager[kind].zones

SelectedOf(kind) ==
    IF kind = "arrow" THEN annotation_manager.selected_arrow
    ELSE zone_manager[kind].selected_zone

IsSelectedShape(kind, x) ==
    IF kind = "arrow" THEN arrow_items[x].selected_state ELSE zone_items[x].selected

IsInvalidated(kind, x) ==
    IF kind = "arrow" THEN arrow_items[x].deleted ELSE zone_items[x].deleted

\* the shapes created for a manager, in the order of their creation
CreatedFor(kind) ==
    IF kind = "arrow" THEN [a \in DOMAIN arrow_items |-> a]
    ELSE SelectSeq([z \in DOMAIN zone_items |-> z],
                   LAMBDA z : zone_items[z].kind = kind)

ValidOf(kind) == SelectSeq(CreatedFor(kind), LAMBDA x : ~IsInvalidated(kind, x))

\* C24: no valid shape ever leaves its collection here, and once
\* clear_selection has run, alone or within set_mode or a selection, the
\* collection holds the valid shapes and no invalidated one; after
\* clear_selection and set_mode every shape of it is unselected and the
\* manager has no selected shape, after a selection only the selected one is.
C24_ClearSelectionDropsInvalidatedShapes ==
    /\ \A kind \in {"arrow"} \cup ZoneKinds :
           \A x \in SeqToSet(ValidOf(kind)) : x \in SeqToSet(CollectionOf(kind))
    /\ last.op \in {"clear_selection", "set_mode", "select_arrow", "select_zone"}
       => CollectionOf(last.kind) = ValidOf(last.kind)
    /\ last.op \in {"clear_selection", "set_mode"}
       => /\ SelectedOf(last.kind) = 0
          /\ \A x \in SeqToSet(CollectionOf(last.kind)) : ~IsSelectedShape(last.kind, x)
    /\ last.op \in {"select_arrow", "select_zone"}
       => \A x \in SeqToSet(CollectionOf(last.kind)) :
              IsSelectedShape(last.kind, x) <=> x = SelectedOf(last.kind)

\* clear_selection has run on the arrow manager while it held the selected
\* arrow, invalidated, and a valid one: the first is gone, the second stays
C24_Witness ==
    /\ last.op = "clear_selection"
    /\ last.kind = "arrow"
    /\ last.selected # 0
    /\ arrow_items[last.selected].deleted
    /\ annotation_manager.arrows # <<>>
    /\ last.selected \notin SeqToSet(annotation_manager.arrows)

-----------------------------------------------------------------------------
(* Style: the setters of the four managers *)

\* the style a zone manager and a zone item make of the style they are given
NormalizedStyle(style) == IF style \in {"dash", "dashed", "--"} THEN "dashed" ELSE "solid"

\* set_color, set_width, set_fill_alpha and set_style of the three zone items
Zone_set_color(item, color) == [item EXCEPT !.zone_color = color]
Zone_set_width(item, width) == [item EXCEPT !.zone_width = width]
Zone_set_fill_alpha(item, alpha) == [item EXCEPT !.zone_fill_alpha = alpha]
Zone_set_style(item, style) == [item EXCEPT !.zone_style = NormalizedStyle(style)]

\* set_color that writes the manager's default whatever is selected
Zone_manager_set_color_default(w, k, color) == [w EXCEPT !.zm[k].zone_color = color]

\* set_color, set_width, set_style and set_fill_alpha of the three zone managers
Zone_manager_set_color(w, k, color) ==
    IF w.zm[k].selected_zone # 0
    THEN [w EXCEPT !.zone_items[w.zm[k].selected_zone] = Zone_set_color(@, color)]
    ELSE [w EXCEPT !.zm[k].zone_color = color]

Zone_manager_set_width(w, k, width) ==
    IF w.zm[k].selected_zone # 0
    THEN [w EXCEPT !.zone_items[w.zm[k].selected_zone] = Zone_set_width(@, width)]
    ELSE [w EXCEPT !.zm[k].zone_width = width]

Zone_manager_set_style(w, k, style) ==
    LET normalized == NormalizedStyle(style)
    IN  IF w.zm[k].selected_zone # 0
        THEN [w EXCEPT !.zone_items[w.zm[k].selected_zone] = Zone_set_style(@, normalized)]
        ELSE [w EXCEPT !.zm[k].zone_style = normalized]

Zone_manager_set_fill_alpha(w, k, alpha) ==
    IF w.zm[k].selected_zone # 0
    THEN [w EXCEPT !.zone_items[w.zm[k].selected_zone] = Zone_set_fill_alpha(@, alpha)]
    ELSE [w EXCEPT !.zm[k].zone_fill_alpha = alpha]

\* the values the controls offer besides the constructors' values
StyleColors == {"#FF0000"}
StyleWidths == {3}
StyleAlphas == {50}
ZoneStyleInputs == {"dashed", "dotted"}
ArrowStyleInputs == {"dotted"}

MaxRestyled == 1   \* properties set away from the constructors' values in one run

\* the properties of managers and shapes that differ from the constructors' values
Restyled(w) ==
    Cardinality({p \in {"arrow_color", "arrow_width", "arrow_style"} :
                    w.am[p] # ArrowAnnotationManager[p]})
    + Cardinality({kp \in ZoneKinds \X {"zone_color", "zone_width", "zone_style", "zone_fill_alpha"} :
                    w.zm[kp[1]][kp[2]] # ZoneManager(kp[1])[kp[2]]})
    + Cardinality({ap \in (DOMAIN w.arrow_items) \X {"arrow_color", "arrow_width", "arrow_style"} :
                    w.arrow_items[ap[1]][ap[2]] # ArrowAnnotationManager[ap[2]]})
    + Cardinality({zp \in (DOMAIN w.zone_items) \X {"zone_color", "zone_width", "zone_style", "zone_fill_alpha"} :
                    w.zone_items[zp[1]][zp[2]] # ZoneManager("rectangle")[zp[2]]})

\* the setters of the managers called with a value, noted with the value
ArrowManagerSetColor ==
    \E color \in StyleColors :
        LET w == Arrow_manager_set_color(World, color)
        IN  /\ Restyled(w) <= MaxRestyled
            /\ Commit(w, Call("set_color", "arrow", 0, "None", NoPos, "None", color))

ArrowManagerSetWidth ==
    \E width \in StyleWidths :
        LET w == Arrow_manager_set_width(World, width)
        IN  /\ Restyled(w) <= MaxRestyled
            /\ Commit(w, Call("set_width", "arrow", 0, "None", NoPos, "None", width))

ArrowManagerSetStyle ==
    \E style \in ArrowStyleInputs :
        LET w == Arrow_manager_set_style(World, style)
        IN  /\ Restyled(w) <= MaxRestyled
            /\ Commit(w, Call("set_style", "arrow", 0, "None", NoPos, "None", style))

ZoneManagerSetColor ==
    \E k \in ZoneKinds, color \in StyleColors :
        LET w == Zone_manager_set_color(World, k, color)
        IN  /\ Restyled(w) <= MaxRestyled
            /\ Commit(w, Call("set_color", k, 0, "None", NoPos, "None", color))

ZoneManagerSetWidth ==
    \E k \in ZoneKinds, width \in StyleWidths :
        LET w == Zone_manager_set_width(World, k, width)
        IN  /\ Restyled(w) <= MaxRestyled
            /\ Commit(w, Call("set_width", k, 0, "None", NoPos, "None", width))

ZoneManagerSetStyle ==
    \E k \in ZoneKinds, style \in ZoneStyleInputs :
        LET w == Zone_manager_set_style(World, k, style)
        IN  /\ Restyled(w) <= MaxRestyled
            /\ Commit(w, Call("set_style", k, 0, "None", NoPos, "None", style))

ZoneManagerSetFillAlpha ==
    \E k \in ZoneKinds, alpha \in StyleAlphas :
        LET w == Zone_manager_set_fill_alpha(World, k, alpha)
        IN  /\ Restyled(w) <= MaxRestyled
            /\ Commit(w, Call("set_fill_alpha", k, 0, "None", NoPos, "None", alpha))

NextStyle ==
    \/ BoardArrowGesture
    \/ BoardZoneGesture
    \/ SelectArrow
    \/ SelectZone
    \/ ArrowClearSelection
    \/ ZoneClearSelection
    \/ ArrowManagerSetColor
    \/ ArrowManagerSetWidth
    \/ ArrowManagerSetStyle
    \/ ZoneManagerSetColor
    \/ ZoneManagerSetWidth
    \/ ZoneManagerSetStyle
    \/ ZoneManagerSetFillAlpha

SpecStyle == Init /\ [][NextStyle]_vars

Setters == {"set_color", "set_width", "set_style", "set_fill_alpha"}

\* the field a setter writes, in the manager and in the shape
PropertyOf(op, kind) ==
    CASE op = "set_color" -> IF kind = "arrow" THEN "arrow_color" ELSE "zone_color"
      [] op = "set_width" -> IF kind = "arrow" THEN "arrow_width" ELSE "zone_width"
      [] op = "set_style" -> IF kind = "arrow" THEN "arrow_style" ELSE "zone_style"
      [] op = "set_fill_alpha" -> "zone_fill_alpha"

\* the value the property takes: zone styles are normalised
ValueSet(op, kind, value) ==
    IF op = "set_style" /\ kind # "arrow" THEN NormalizedStyle(value) ELSE value

\* C25: a setter of a manager called while a shape of it is selected changes
\* that property of that shape and nothing else, neither the manager's
\* default nor another shape; called with no shape selected it changes the
\* manager's default of that property and nothing else.
C25_SettersChangeOneProperty ==
    [][last'.op \in Setters
       => LET field == PropertyOf(last'.op, last'.kind)
              value == ValueSet(last'.op, last'.kind, last'.ret)
              shape == last'.selected
          IN  IF last'.kind = "arrow"
              THEN /\ zone_manager' = zone_manager
                   /\ zone_items' = zone_items
                   /\ IF shape # 0
                      THEN /\ annotation_manager' = annotation_manager
                           /\ arrow_items' = [arrow_items EXCEPT ![shape][field] = value]
                      ELSE /\ arrow_items' = arrow_items
                           /\ annotation_manager' =
                                  [annotation_manager EXCEPT ![field] = value]
              ELSE /\ annotation_manager' = annotation_manager
                   /\ arrow_items' = arrow_items
                   /\ IF shape # 0
                      THEN /\ zone_manager' = zone_manager
                           /\ zone_items' = [zone_items EXCEPT ![shape][field] = value]
                      ELSE /\ zone_items' = zone_items
                           /\ zone_manager' =
                                  [zone_manager EXCEPT ![last'.kind][field] = value]]_vars

\* set_color has run on a zone manager that holds two zones, one selected,
\* and the selected zone has the colour
C25_Witness ==
    /\ last.op = "set_color"
    /\ last.kind \in ZoneKinds
    /\ last.selected # 0
    /\ Len(zone_manager[last.kind].zones) = 2
    /\ zone_items[last.selected].zone_color = last.ret
    /\ zone_manager[last.kind].zone_color = DEFAULT_ZONE_COLOR

-----------------------------------------------------------------------------
(* Deletion of the selected shape *)

\* MainWindow._on_zone_delete_requested: the first manager that has a
\* selected zone deletes it
on_zone_delete_requested(w) ==
    IF w.zm["rectangle"].selected_zone # 0 THEN delete_selected_zone(w, "rectangle")
    ELSE IF w.zm["ellipse"].selected_zone # 0 THEN delete_selected_zone(w, "ellipse")
    ELSE IF w.zm["cone"].selected_zone # 0 THEN delete_selected_zone(w, "cone")
    ELSE w

\* the manager the delete button of the zone menus reaches
ZoneMenuKind ==
    IF zone_manager["rectangle"].selected_zone # 0 THEN "rectangle"
    ELSE IF zone_manager["ellipse"].selected_zone # 0 THEN "ellipse"
    ELSE "cone"

\* the delete button of the zone menus
ZoneDeleteRequested ==
    /\ \E k \in ZoneKinds : zone_manager[k].selected_zone # 0
    /\ Commit(on_zone_delete_requested(World),
              Call("delete_selected_zone", ZoneMenuKind, 0, "None", NoPos, "None", "None"))

\* delete_selected_zone of a manager, whether or not it has a selected zone
DeleteSelectedZone ==
    \E k \in ZoneKinds :
        /\ zone_manager[k].zones # <<>>
        /\ Commit(delete_selected_zone(World, k),
                  Call("delete_selected_zone", k, 0, "None", NoPos, "None", "None"))

\* the delete button of the properties popup, which a right press on an
\* arrow opens after selecting the arrow
SelectedArrowDeleteRequested ==
    \E a \in SeqToSet(annotation_manager.arrows) :
        /\ a = annotation_manager.selected_arrow
        /\ Commit(on_arrow_delete_requested(World, a),
                  Call("delete_arrow", "arrow", a, "None", NoPos, "None", "None"))

NextDelete ==
    \/ BoardArrowGesture
    \/ BoardZoneGesture
    \/ PressOnArrow
    \/ PressOnZone
    \/ PressOnEmpty
    \/ ZoneDeleteRequested
    \/ DeleteSelectedZone
    \/ SelectedArrowDeleteRequested

SpecDelete == Init /\ [][NextDelete]_vars

\* C26: a deletion run while a shape of the manager is selected takes that
\* shape, and no other, out of the manager's collection, leaves none of its
\* handles on the scene and leaves the manager without selected shape; run
\* while no shape is selected it leaves the collection as it was.
C26_DeleteRemovesSelectedShape ==
    [][last'.op \in {"delete_selected_zone", "delete_arrow"}
       => LET shape == last'.selected
              kind == last'.kind
              before == IF kind = "arrow" THEN annotation_manager.arrows
                        ELSE zone_manager[kind].zones
              after == IF kind = "arrow" THEN annotation_manager'.arrows
                       ELSE zone_manager'[kind].zones
          IN  IF shape # 0
              THEN /\ shape \in SeqToSet(before)
                   /\ after = RemoveFirst(before, shape)
                   /\ shape \notin SeqToSet(after)
                   /\ IF kind = "arrow"
                      THEN /\ ~arrow_items'[shape].handles_in_scene
                           /\ annotation_manager'.selected_arrow = 0
                      ELSE /\ ~zone_items'[shape].handles_in_scene
                           /\ zone_manager'[kind].selected_zone = 0
              ELSE after = before]_vars

\* the selected one of two zones of a manager has been deleted; its handles
\* had been put on the scene, and the other zone is still in the collection
C26_Witness ==
    /\ last.op = "delete_selected_zone"
    /\ last.selected # 0
    /\ last.kind \in {"rectangle", "ellipse"}
    /\ Len(zone_manager[last.kind].zones) = 1
    /\ last.selected \notin SeqToSet(zone_manager[last.kind].zones)
    /\ ~zone_items[last.selected].resize_handles

-----------------------------------------------------------------------------
(* The resize handles of the shapes on the board *)

NextHandles ==
    \/ BoardArrowGesture
    \/ BoardZoneGesture
    \/ PressOnArrow
    \/ PressOnZone
    \/ PressOnEmpty
    \/ DeleteSelectedZone
    \/ SelectedArrowDeleteRequested
    \/ DeleteLastArrow

SpecHandles == Init /\ [][NextHandles]_vars

\* a shape is selected: it is in its manager's collection and in selected state
ArrowIsSelected(a) ==
    a \in SeqToSet(annotation_manager.arrows) /\ arrow_items[a].selected_state

ZoneIsSelected(z) ==
    z \in SeqToSet(zone_manager[zone_items[z].kind].zones) /\ zone_items[z].selected

\* C27: the four corner handles of a shape of any kind are shown exactly
\* while the shape is selected: every selected shape shows them, and no shape
\* that is unselected or out of its manager's collection does.
C27_HandlesShownIffSelected ==
    /\ \A a \in DOMAIN arrow_items :
           arrow_items[a].handles_visible <=> ArrowIsSelected(a)
    /\ \A z \in DOMAIN zone_items :
           zone_items[z].handles_visible <=> ZoneIsSelected(z)

-----------------------------------------------------------------------------
(* Who changes the collections and the selected references *)

\* what the methods of the arrow manager can make of its collection in one
\* call: finish_arrow appends the new arrow, delete_last_arrow takes the last
\* one away, clear_selection takes the invalidated ones away
ArrowsByManagerMethods ==
    {Append(annotation_manager.arrows, Len(arrow_items) + 1),
     SubSeq(annotation_manager.arrows, 1, Len(annotation_manager.arrows) - 1),
     SelectSeq(annotation_manager.arrows, LAMBDA a : ~arrow_items[a].deleted)}

\* and those of a zone manager: finish_zone appends the new zone,
\* delete_selected_zone takes the selected one away, clear_selection the
\* invalidated ones
ZonesByManagerMethods(k) ==
    {Append(zone_manager[k].zones, Len(zone_items) + 1),
     RemoveFirst(zone_manager[k].zones, zone_manager[k].selected_zone),
     SelectSeq(zone_manager[k].zones, LAMBDA z : ~zone_items[z].deleted)}

\* C28: a collection changes only as a method of its manager changes it, and
\* a selected reference changes only as clear_selection and the selection
\* method change it: to none, or to a shape of the collection which is then
\* in selected state.
C28_OnlyManagerMethodsChangeManagers ==
    [][/\ annotation_manager'.arrows # annotation_manager.arrows
          => annotation_manager'.arrows \in ArrowsByManagerMethods
       /\ annotation_manager'.selected_arrow # annotation_manager.selected_arrow
          => \/ annotation_manager'.selected_arrow = 0
             \/ /\ annotation_manager'.selected_arrow \in SeqToSet(annotation_manager'.arrows)
                /\ arrow_items'[annotation_manager'.selected_arrow].selected_state
       /\ \A k \in ZoneKinds :
              /\ zone_manager'[k].zones # zone_manager[k].zones
                 => zone_manager'[k].zones \in ZonesByManagerMethods(k)
              /\ zone_manager'[k].selected_zone # zone_manager[k].selected_zone
                 => \/ zone_manager'[k].selected_zone = 0
                    \/ /\ zone_manager'[k].selected_zone \in SeqToSet(zone_manager'[k].zones)
                       /\ zone_items'[zone_manager'[k].selected_zone].selected]_vars

-----------------------------------------------------------------------------
(* Rotation of a rectangle zone from its properties menu *)

\* the gestures that draw a zone of kind k from the origin to p
DrawZoneTo(w, k, p) ==
    LET w1 == set_tool_mode(w, ZoneTool(k))
        w2 == ZoneToolLeftPress(w1, k, GesturePoint(0))
        w3 == ZoneToolLeftPress(w2, k, p)
    IN  ZoneToolLeftRelease(w3, k)

\* a rectangle drawn, 4 by 3 or 10 by 20, and selected by the right press
\* that opens its properties menu
InitRotation ==
    \E p \in {GesturePoint(1), Point(10 * Scale, 20 * Scale)} :
        Start(SelectPressOnZone(DrawZoneTo(Constructed, "rectangle", p), "rectangle", 1))

\* ZoneProperties._on_rotation_changed: the menu stays open beside the board
\* and turns its zone, selected or not. The call is noted with the angle the
\* zone had and, through a run of rotations that began on the selected zone
\* at angle 0, with the outline the zone had then
RotateZone ==
    /\ NoSession
    /\ \E z \in SeqToSet(zone_manager["rectangle"].zones), angle \in RotationAngles :
           /\ angle # zone_items[z].rotation_angle
           /\ Commit([World EXCEPT !.zone_items[z] = Zone_set_rotation(@, angle)],
                     Call("set_rotation", "rectangle", z, "None", NoPos,
                          [angle |-> zone_items[z].rotation_angle,
                           origin |-> IF zone_items[z].selected
                                         /\ zone_items[z].rotation_angle = 0
                                      THEN Some(zone_items[z].selection_rect)
                                      ELSE IF last.op = "set_rotation" /\ last.item = z
                                      THEN last.arg.origin
                                      ELSE None],
                          "None"))

NextRotation ==
    \/ RotateZone
    \/ PressOnZone
    \/ PressOnEmpty
    \/ ZonePositionChange
    \/ ZoneHandlePress
    \/ ZoneHandleMove
    \/ ZoneHandleRelease

SpecRotation == InitRotation /\ [][NextRotation]_vars

\* C29: set_rotation of a rectangle zone leaves the unrotated rect as it is;
\* the outline of a selected zone at rotation 0 is the rect; and rotations
\* that lead the selected zone from angle 0 back to angle 0 give it the
\* outline it had.
C29_RotationKeepsRectAndRestoresOutline ==
    [][last'.op = "set_rotation"
       => LET before == zone_items[last'.item]
              after == zone_items'[last'.item]
          IN  /\ after.rect = before.rect
              /\ (after.selected /\ after.rotation_angle = 0)
                 => after.selection_rect = after.rect
              /\ (after.rotation_angle = 0 /\ IsSome(last'.arg.origin))
                 => after.selection_rect = The(last'.arg.origin)]_vars

\* the selected rectangle (0, 0, 10, 20) has been turned to 90 degrees and
\* back to 0, and its outline is (0, 0, 10, 20)
C29_Witness ==
    /\ last.op = "set_rotation"
    /\ last.arg.angle = 90
    /\ last.arg.origin = Some(Rect(0, 0, 10 * Scale, 20 * Scale))
    /\ zone_items[last.item].rotation_angle = 0
    /\ zone_items[last.item].selected
    /\ zone_items[last.item].selection_rect = Rect(0, 0, 10 * Scale, 20 * Scale)

-----------------------------------------------------------------------------
(* The rescaling of an arrow by its handles *)

\* the points of the curve drawn for the resize: the middle one a third of
\* the way across
CurveGesture == <<Point(0, 0), Point(1 * Scale, 3 * Scale), Point(3 * Scale, 0)>>

\* the curve tool, three left presses and the finish of the curve
DrawCurve(w) ==
    LET w1 == set_tool_mode(w, "curve")
        w2 == ArrowToolLeftPress(w1, CurveGesture[1], NoPlayer, NoPlayer, 0)
        w3 == ArrowToolLeftPress(w2, CurveGesture[2], NoPlayer, NoPlayer, 0)
        w4 == ArrowToolLeftPress(w3, CurveGesture[3], NoPlayer, NoPlayer, 0)
    IN  set_tool_mode(finish_arrow(w4), "select")

\* one arrow on the board, selected: a slanted one, a vertical one, or a
\* curve of three points
InitArrowResize ==
    \/ \E p \in {GesturePoint(1), Point(0, 3000)} :
           Start(SelectPressOnArrow(DrawArrowTo(Constructed, p), 1))
    \/ Start(SelectPressOnArrow(DrawCurve(Constructed), 1))

\* ResizeHandle.mouseMoveEvent: the pointer is at one of the drag positions
\* or back where the press was. The call is noted with whether the earlier
\* ticks of the session had left the points of the snapshot
ArrowHandleDrag ==
    \E a \in DOMAIN arrow_items :
        /\ arrow_items[a].is_resizing
        /\ \E pos \in DragPositions \cup {The(arrow_items[a].resize_start_pos)} :
               Commit([World EXCEPT !.arrow_items[a] =
                           Arrow_update_resize(@, arrow_items[a].resize_corner, pos)],
                      Call("update_resize", "arrow", a, arrow_items[a].resize_corner, pos,
                           IF arrow_items[a].arrow_points
                              = [i \in DOMAIN The(arrow_items[a].original_points) |->
                                    PAdd(The(arrow_items[a].original_points)[i],
                                         arrow_items[a].pos)]
                           THEN "snapshot" ELSE "rescaled",
                           "None"))

NextArrowResize ==
    \/ ArrowHandlePress
    \/ ArrowHandleDrag
    \/ ArrowHandleRelease
    \/ ArrowPositionChange
    \/ PressOnEmpty
    \/ PressOnArrow

SpecArrowResize == InitArrowResize /\ [][NextArrowResize]_vars

\* the point the claim gives for point q of the snapshot: new_min plus the
\* normalized position of q in the box of the snapshot times the new size
RescaledPoint(item, corner_type, scene_pos, q) ==
    LET orig == PointsBounds(The(item.original_points))
        new == Arrow_new_bounds(item, corner_type, scene_pos)
        n_x == IF orig.max_x > orig.min_x
               THEN Div(q.x - orig.min_x, orig.max_x - orig.min_x) ELSE 0
        n_y == IF orig.max_y > orig.min_y
               THEN Div(q.y - orig.min_y, orig.max_y - orig.min_y) ELSE 0
    IN  Point(new.min_x + Mul(n_x, new.max_x - new.min_x) + item.pos.x,
              new.min_y + Mul(n_y, new.max_y - new.min_y) + item.pos.y)

\* the points of the snapshot, in the scene
SnapshotInScene(item) ==
    [i \in DOMAIN The(item.original_points) |->
        PAdd(The(item.original_points)[i], item.pos)]

PointsNear(ps, qs) ==
    /\ Len(ps) = Len(qs)
    /\ \A i \in DOMAIN ps : PointNear(ps[i], qs[i])

\* a tick of a resize session of an arrow has just been taken
ArrowTick ==
    /\ last'.op = "update_resize"
    /\ last'.kind = "arrow"
    /\ arrow_items[last'.item].is_resizing
    /\ HasOriginalPoints(arrow_items[last'.item])

\* C30 as claimed: every tick of a resize session puts every point of the
\* arrow at new_min + n * new_size, n its normalized position in the box of
\* the snapshot, whatever the earlier ticks did; a tick back at the position
\* of the press gives the points of the snapshot; the number and the order
\* of the points stay.
C30_TickDependsOnSnapshotOnly ==
    [][ArrowTick
       => LET item == arrow_items[last'.item]
              after == arrow_items'[last'.item]
          IN  /\ Len(after.arrow_points) = Len(item.arrow_points)
              /\ \A i \in DOMAIN after.arrow_points :
                     after.arrow_points[i] =
                         RescaledPoint(item, last'.corner, last'.pos,
                                       The(item.original_points)[i])
              /\ last'.pos = The(item.resize_start_pos)
                 => PointsNear(after.arrow_points, SnapshotInScene(item))]_vars

\* C30, amended: a tick update_resize accepts (new width and height above 1
\* unit) puts every point of the arrow at new_min + n * new_size, n its
\* normalized position in the box of the snapshot, whatever the earlier
\* ticks did, and keeps the points in their order along both axes; a tick
\* it does not accept leaves the points the earlier ticks gave; an accepted
\* tick back at the position of the press gives the points of the snapshot,
\* up to rounding; no tick changes the number of points.
C30_AcceptedTickDependsOnSnapshotOnly ==
    [][ArrowTick
       => LET item == arrow_items[last'.item]
              after == arrow_items'[last'.item]
              original == The(item.original_points)
              accepted == ~ArrowTickTooSmall(item, last'.corner, last'.pos)
          IN  /\ Len(after.arrow_points) = Len(item.arrow_points)
              /\ Len(after.arrow_points) = Len(original)
              /\ accepted
                 => /\ \A i \in DOMAIN after.arrow_points :
                           after.arrow_points[i] =
                               RescaledPoint(item, last'.corner, last'.pos, original[i])
                    /\ \A i, j \in DOMAIN after.arrow_points :
                           /\ original[i].x <= original[j].x
                              => after.arrow_points[i].x <= after.arrow_points[j].x
                           /\ original[i].y <= original[j].y
                              => after.arrow_points[i].y <= after.arrow_points[j].y
              /\ ~accepted => after.arrow_points = item.arrow_points
              /\ (accepted /\ last'.pos = The(item.resize_start_pos))
                 => PointsNear(after.arrow_points, SnapshotInScene(item))]_vars

\* the curve of three points has been rescaled by a tick and a later tick,
\* back at the position of the press, has given it the points it was drawn with
C30_Witness ==
    /\ last.op = "update_resize"
    /\ last.kind = "arrow"
    /\ Len(arrow_items[last.item].arrow_points) = 3
    /\ arrow_items[last.item].is_resizing
    /\ last.pos = The(arrow_items[last.item].resize_start_pos)
    /\ last.arg = "rescaled"
    /\ PointsNear(arrow_items[last.item].arrow_points, CurveGesture)

-----------------------------------------------------------------------------
(* The body of a zigzag arrow *)

ANNOTATION_ARROW_HEAD_LENGTH == 2

\* math.sin(distance / period_pixels * 2 pi) for the period of 2 units: the
\* sine of pi times the distance, by Bhaskara's approximation of a half wave
SinOfHalfTurns(distance) ==
    LET phase == distance % (2 * Scale)
        h == phase % Scale
        y == h * (Scale - h)
        half_wave == (4 * Scale * y) \div (1250000 - y)
    IN  IF phase < Scale THEN half_wave ELSE -half_wave

\* the end of the last segment, shortened for the head
ZigzagShortenedEnd(item) ==
    LET pts == item.arrow_points
        last_start == pts[Len(pts) - 1]
        last_end == pts[Len(pts)]
        ldx == last_end.x - last_start.x
        ldy == last_end.y - last_start.y
        llen == Hypot(ldx, ldy)
        base_w == IF item.arrow_width # 0 THEN item.arrow_width ELSE 2
        head_length == ANNOTATION_ARROW_HEAD_LENGTH * Max(800, 250 * base_w)
    IN  IF llen > 0
        THEN LET ratio == Max(0, Div(llen - (head_length * 7) \div 10, llen))
             IN  Point(last_start.x + Mul(ldx, ratio), last_start.y + Mul(ldy, ratio))
        ELSE last_end

\* start and end of segment seg_idx as the loop takes them
ZigzagSegment(item, seg_idx) ==
    LET pts == item.arrow_points
    IN  [start_pt |-> pts[seg_idx],
         end_pt |-> IF seg_idx = Len(pts) - 1 THEN ZigzagShortenedEnd(item)
                    ELSE pts[seg_idx + 1],
         is_last_segment |-> seg_idx = Len(pts) - 1]

ZigzagSegLen(seg) == Hypot(seg.end_pt.x - seg.start_pt.x, seg.end_pt.y - seg.start_pt.y)

\* num_samples = max(int(seg_len / period_pixels * 10), 30)
ZigzagNumSamples(seg) == Max((5 * ZigzagSegLen(seg)) \div Scale, 30)

\* the point at t = i / num_samples on the straight line of the segment
ZigzagLinePoint(seg, i) ==
    LET n == ZigzagNumSamples(seg)
    IN  Point(seg.start_pt.x + RoundDiv(i * (seg.end_pt.x - seg.start_pt.x), n),
              seg.start_pt.y + RoundDiv(i * (seg.end_pt.y - seg.start_pt.y), n))

\* t > 0.85 for t = i / num_samples
ZigzagStraightAt(seg, i) == seg.is_last_segment /\ 100 * i > 85 * ZigzagNumSamples(seg)

\* control_points of one segment
ZigzagControlPoints(seg) ==
    LET n == ZigzagNumSamples(seg)
        seg_len == ZigzagSegLen(seg)
        px == -Div(seg.end_pt.y - seg.start_pt.y, seg_len)
        py == Div(seg.end_pt.x - seg.start_pt.x, seg_len)
    IN  [i \in 1..n |->
            IF ZigzagStraightAt(seg, i) THEN ZigzagLinePoint(seg, i)
            ELSE LET b == ZigzagLinePoint(seg, i)
                     osc == Mul(600, SinOfHalfTurns(RoundDiv(i * seg_len, n)))
                 IN  Point(b.x + Mul(osc, px), b.y + Mul(osc, py))]

\* smooth_until taken over the whole segment
ZigzagSmoothUntil_whole(seg) == ZigzagNumSamples(seg)

\* smooth_until = int(len(control_points) * (0.85 if is_last_segment else 1.0))
ZigzagSmoothUntil(seg) ==
    IF seg.is_last_segment THEN (85 * ZigzagNumSamples(seg)) \div 100
    ELSE ZigzagNumSamples(seg)

MidPoint(p, q) == Point((p.x + q.x) \div 2, (p.y + q.y) \div 2)

\* the quadTo and lineTo pieces the loop adds for one segment
ZigzagSegmentPieces(seg) ==
    IF ZigzagSegLen(seg) <= Epsilon THEN <<>>
    ELSE LET cp == ZigzagControlPoints(seg)
             n == Len(cp)
             smooth_until == ZigzagSmoothUntil(seg)
             quads == IF smooth_until > 1 THEN Min(smooth_until, n - 1) ELSE 0
         IN  [j \in 1..quads |->
                 [op |-> "quadTo", ctrl |-> cp[j], end |-> MidPoint(cp[j], cp[j + 1])]]
             \o [j \in 1..(n - smooth_until) |->
                 [op |-> "lineTo", ctrl |-> cp[smooth_until + j],
                  end |-> cp[smooth_until + j]]]

RECURSIVE ZigzagPiecesFrom(_, _)
ZigzagPiecesFrom(item, seg_idx) ==
    IF seg_idx > Len(item.arrow_points) - 1 THEN <<>>
    ELSE ZigzagSegmentPieces(ZigzagSegment(item, seg_idx))
         \o ZigzagPiecesFrom(item, seg_idx + 1)

\* CustomArrowItem._create_zigzag_path: the elements of the QPainterPath
create_zigzag_path(item) ==
    IF Len(item.arrow_points) < 2 THEN <<>>
    ELSE <<[op |-> "moveTo", ctrl |-> item.arrow_points[1], end |-> item.arrow_points[1]]>>
         \o ZigzagPiecesFrom(item, 1)

\* where the second click of the zigzag arrow lands
ZigzagEnds ==
    {Point(4 * Scale, 3 * Scale), Point(9200, 0), Point(0, 21200),
     Point(12 * Scale, 9 * Scale), Point(1 * Scale, 0)}

\* one zigzag arrow on the board, selected
InitZigzag ==
    \E p \in ZigzagEnds :
        Start(SelectPressOnArrow(
                  DrawArrowTo(Arrow_manager_set_style(Constructed, "zigzag"), p), 1))

\* _draw_arrow_components of a zigzag arrow: the body path is built
DrawZigzagBody ==
    \E a \in SeqToSet(annotation_manager.arrows) :
        /\ arrow_items[a].arrow_style = "zigzag"
        /\ Commit(World, Call("_create_zigzag_path", "arrow", a, "None", NoPos, "None",
                              create_zigzag_path(arrow_items[a])))

NextZigzag ==
    \/ DrawZigzagBody
    \/ ArrowHandlePress
    \/ ArrowHandleMove
    \/ ArrowHandleRelease
    \/ ArrowPositionChange

SpecZigzag == InitZigzag /\ [][NextZigzag]_vars

\* the body of a zigzag arrow of two points has just been built
ZigzagBuilt ==
    /\ last.op = "_create_zigzag_path"
    /\ Len(arrow_items[last.item].arrow_points) = 2

\* C31: in the body of a zigzag arrow of two points, every sample of the
\* segment with t > 0.85 is the point of the straight line at t, and the
\* path reaches these samples, one after the other, by lineTo pieces only.
C31_ZigzagEndsStraight ==
    ZigzagBuilt
    => LET seg == ZigzagSegment(arrow_items[last.item], 1)
           n == ZigzagNumSamples(seg)
           path == last.ret
       IN  ZigzagSegLen(seg) > Epsilon
           => \A i \in 1..n :
                  ZigzagStraightAt(seg, i)
                  => LET k == Len(path) - (n - i)
                     IN  /\ k > 1
                         /\ path[k].op = "lineTo"
                         /\ path[k].end = ZigzagLinePoint(seg, i)
                         /\ \A j \in 1..Len(path) :
                                path[j].op = "quadTo"
                                => /\ path[j].ctrl # ZigzagLinePoint(seg, i)
                                   /\ path[j].end # ZigzagLinePoint(seg, i)

\* a body of 40 samples has been built: sample 34 sits at t = 0.85 and
\* oscillates, samples 35 to 40 end the path as lineTo pieces
C31_Witness ==
    /\ ZigzagBuilt
    /\ ZigzagNumSamples(ZigzagSegment(arrow_items[last.item], 1)) = 40
    /\ Len(last.ret) = 41
    /\ last.ret[35].op = "quadTo"
    /\ last.ret[36].op = "lineTo"
    /\ \E j \in 1..34 :
           last.ret[j + 1].ctrl # ZigzagLinePoint(ZigzagSegment(arrow_items[last.item], 1), j)

-----------------------------------------------------------------------------
(* The sector of a symmetric cone *)

\* math.degrees(math.atan2(dy, dx)) for the directions of the compass rose
Atan2Deg(dy, dx) ==
    CASE dy = 0 /\ dx >= 0 -> 0
      [] dy > 0 /\ dx = dy -> 45
      [] dy > 0 /\ dx = 0 -> 90
      [] dy > 0 /\ dx = -dy -> 135
      [] dy = 0 /\ dx < 0 -> 180
      [] dy < 0 /\ dx = dy -> -135
      [] dy < 0 /\ dx = 0 -> -90
      [] dy < 0 /\ dx = -dy -> -45

\* ConeZoneItem.__init__: orientation_deg = -math.degrees(math.atan2(dy, dx))
Cone_orientation_deg(item) ==
    -Atan2Deg(item.direction_point.y - item.apex.y, item.direction_point.x - item.apex.x)

\* ConeZoneItem._build_path of a symmetric cone: the elements of the path.
\* Angles are the degrees handed to Qt, counter-clockwise on the screen from
\* 3 o'clock; the end of the first edge is kept as radius and angle, it is
\* the point (apex.x + radius cos, apex.y - radius sin) of that angle
Cone_build_path(item) ==
    LET start_angle == Cone_orientation_deg(item) - item.spread_deg \div 2
        qt_start == -start_angle
        qt_sweep == -item.spread_deg
        rect == Rect(item.apex.x - item.radius, item.apex.y - item.radius,
                     2 * item.radius, 2 * item.radius)
    IN  <<[op |-> "moveTo", point |-> item.apex],
          [op |-> "lineTo", radius |-> item.radius, angle |-> qt_start],
          [op |-> "arcTo", rect |-> rect, start |-> qt_start, sweep |-> qt_sweep],
          [op |-> "closeSubpath"]>>

\* the apex and the second click of the cones drawn
ConeApexes == {Point(0, 0), Point(10 * Scale, 5 * Scale)}
ConeOffsets ==
    {Point(4 * Scale, 0), Point(4 * Scale, 4 * Scale), Point(0, 4 * Scale),
     Point(-4 * Scale, 4 * Scale), Point(-4 * Scale, 0), Point(-4 * Scale, -4 * Scale),
     Point(0, -4 * Scale), Point(4 * Scale, -4 * Scale), Point(500, 0)}

\* the cone tool, a click on the apex and a click on the second point; the
\* constructor of the item builds its path
ConeGesture ==
    \E apex \in ConeApexes, d \in ConeOffsets :
        LET w1 == set_tool_mode(World, "cone_zone")
            w2 == ZoneToolLeftPress(w1, "cone", apex)
            w3 == ZoneToolLeftPress(w2, "cone", PAdd(apex, d))
            w4 == ZoneToolLeftRelease(w3, "cone")
        IN  /\ Len(arrow_items) + Len(zone_items) < MaxBoardShapes
            /\ Commit(w4, Call("_build_path", "cone", Len(w4.zone_items), "None", NoPos,
                               "None", Cone_build_path(w4.zone_items[Len(w4.zone_items)])))

NextCone ==
    \/ ConeGesture
    \/ PressOnZone
    \/ PressOnEmpty

SpecCone == Init /\ [][NextCone]_vars

\* an angle in degrees brought into 0..359
NormDeg(a) == ((a % 360) + 360) % 360

\* the angle in the scene (y down, from the x axis towards the y axis) of
\* the point Qt places at the angle a
SceneAngleOfQt(a) == NormDeg(-a)

\* C32: the arc of a symmetric cone drawn from apex A to a second click D
\* away from A spans the scene angles from angle(A->D) - spread/2 to
\* angle(A->D) + spread/2 at radius max(1, |AD|): D lies on the bisector.
C32_ConeCentredOnDirection ==
    (/\ last.op = "_build_path"
     /\ zone_items[last.item].direction_point # zone_items[last.item].apex)
    => LET item == zone_items[last.item]
           toD == Atan2Deg(item.direction_point.y - item.apex.y,
                           item.direction_point.x - item.apex.x)
           arc == last.ret[3]
           R == Max(Scale, Hypot(item.direction_point.x - item.apex.x,
                                 item.direction_point.y - item.apex.y))
       IN  /\ arc.op = "arcTo"
           /\ arc.rect = Rect(item.apex.x - R, item.apex.y - R, 2 * R, 2 * R)
           /\ Abs(arc.sweep) = item.spread_deg
           /\ {SceneAngleOfQt(arc.start), SceneAngleOfQt(arc.start + arc.sweep)}
              = {NormDeg(toD - item.spread_deg \div 2), NormDeg(toD + item.spread_deg \div 2)}
           /\ SceneAngleOfQt(arc.start + arc.sweep \div 2) = NormDeg(toD)

-----------------------------------------------------------------------------
(* One simulated position per player and frame *)

\* the players that have a tactical arrow
PlayersWithArrows ==
    {tactical_manager.tactical_arrows[i].player_id :
        i \in DOMAIN tactical_manager.tactical_arrows}

\* C33: after calculate_simulated_trajectories(interval, start) every player
\* with at least one associated arrow has one simulated position per
\* simulated frame, int(interval * FPS) entries tagged start, start + 1, ...
\* in increasing order, also with several arrows; a player without an arrow
\* has no entry.
C33_OneSamplePerPlayerAndFrame ==
    Simulated
    => /\ DOMAIN tactical_manager.simulated_player_positions = PlayersWithArrows
       /\ \A player_id \in PlayersWithArrows :
              LET list == tactical_manager.simulated_player_positions[player_id]
              IN  /\ Len(list) = SimFrames
                  /\ \A n \in DOMAIN list : list[n].frame = n - 1

-----------------------------------------------------------------------------
(* The real future trajectories and their cache *)

TRAJECTORY_SAMPLE_RATE == 5

\* the frames range(current_frame, end_frame + 1, sample_step) runs through
FutureFrames(current_frame, end_frame) ==
    IF end_frame < current_frame THEN <<>>
    ELSE [k \in 1..((end_frame - current_frame) \div TRAJECTORY_SAMPLE_RATE + 1) |->
             current_frame + TRAJECTORY_SAMPLE_RATE * (k - 1)]

\* the list built for a player or for the ball: a sample (x, y, progress,
\* frame) for every sampled frame at which it is tracked
FutureSamples(who, current_frame, interval_seconds, xy) ==
    LET future_frames == interval_seconds * FPS
        end_frame == Min(current_frame + future_frames, TrackedFrames - 1)
        tracked == SelectSeq(FutureFrames(current_frame, end_frame),
                             LAMBDA frame : IsSome(Tracked(xy, who, frame)))
    IN  [k \in DOMAIN tracked |->
            [x |-> The(Tracked(xy, who, tracked[k])).x,
             y |-> The(Tracked(xy, who, tracked[k])).y,
             progress |-> Frac(tracked[k] - current_frame, Max(1, future_frames)),
             frame |-> tracked[k]]]

\* the dict of one side: a key for every player with a sample
FutureOfSide(ids, current_frame, interval_seconds, xy) ==
    [pid \in {p \in SeqToSet(ids) :
                 FutureSamples(p, current_frame, interval_seconds, xy) # <<>>} |->
        FutureSamples(pid, current_frame, interval_seconds, xy)]

\* the body of calculate_future_trajectories behind the check of the cache
FutureComputed(w, current_frame, interval_seconds, xy) ==
    [w EXCEPT !.trm =
        [future_trajectories |->
             [players |-> [Home |-> FutureOfSide(HomeIds, current_frame, interval_seconds, xy),
                           Away |-> FutureOfSide(AwayIds, current_frame, interval_seconds, xy)],
              ball |-> FutureSamples("Ball", current_frame, interval_seconds, xy)],
         cached_frame |-> Some(current_frame),
         cached_interval |-> Some(interval_seconds)]]

\* calculate_future_trajectories with a cache keyed on the frame alone
calculate_future_trajectories_by_frame(w, current_frame, interval_seconds, xy) ==
    IF /\ w.trm.cached_frame = Some(current_frame)
       /\ w.trm.future_trajectories # <<>>
    THEN w
    ELSE FutureComputed(w, current_frame, interval_seconds, xy)

calculate_future_trajectories(w, current_frame, interval_seconds, xy) ==
    IF /\ w.trm.cached_frame = Some(current_frame)
       /\ w.trm.cached_interval = Some(interval_seconds)
       /\ w.trm.future_trajectories # <<>>
    THEN w
    ELSE FutureComputed(w, current_frame, interval_seconds, xy)

\* the frames the simulation starts from, and the seconds it previews
FutureStarts == {0, 5, 10, 30, 45, 50}
FutureIntervals == {1, 2, sim_interval_spin}

\* the manager's two methods, called with a start frame and an interval
CalculateFutureTrajectories ==
    \E current_frame \in FutureStarts, interval_seconds \in FutureIntervals :
        /\ interval_seconds \in FutureIntervals
        /\ Commit(calculate_future_trajectories(World, current_frame, interval_seconds,
                                                xy_objects),
                  Call("calculate_future_trajectories", "None", interval_seconds, "None",
                       NoPos, current_frame, "None"))

ClearTrails ==
    /\ TRUE
    /\ Commit(clear_trails(World),
              Call("clear_trails", "None", 0, "None", NoPos, "None", "None"))

NextTrajectories ==
    \/ CalculateFutureTrajectories
    \/ ClearTrails
    \/ ToggleSimulationMode

SpecTrajectories == InitSimulation /\ [][NextTrajectories]_vars

\* what a manager that holds nothing computes for the frame and the interval
FutureFor(current_frame, interval_seconds) ==
    FutureComputed(World, current_frame, interval_seconds, xy_objects).trm

\* C34: after a call of calculate_future_trajectories the manager holds the
\* trajectories of the frame and the interval of that call, and these as its
\* cache keys; a call with the frame and the interval of the call before
\* leaves the manager as it is; clear_trails empties trajectories and keys.
C34_CacheHoldsLastCalculation ==
    [][/\ last'.op = "calculate_future_trajectories"
          => /\ trajectory_manager' = FutureFor(last'.arg, last'.item)
             /\ (/\ last.op = "calculate_future_trajectories"
                 /\ last.arg = last'.arg /\ last.item = last'.item)
                => trajectory_manager' = trajectory_manager
       /\ last'.op = "clear_trails"
          => /\ trajectory_manager'.future_trajectories = <<>>
             /\ trajectory_manager'.cached_frame = None
             /\ trajectory_manager'.cached_interval = None]_vars

\* a call for frame 0 and 2 seconds has been made: the manager holds the 11
\* samples of the home player up to frame 50, which are not the trajectories
\* of frame 0 and 1 second
C34_Witness ==
    /\ last.op = "calculate_future_trajectories"
    /\ last.arg = 0
    /\ last.item = 2
    /\ trajectory_manager.cached_interval = Some(2)
    /\ "H1" \in DOMAIN trajectory_manager.future_trajectories.players.Home
    /\ Len(trajectory_manager.future_trajectories.players.Home["H1"]) = 11
    /\ trajectory_manager.future_trajectories.players.Home["H1"][11].frame = 50
    /\ trajectory_manager.future_trajectories
           # FutureFor(0, 1).future_trajectories

-----------------------------------------------------------------------------
(* The records of the tactical manager, arrow by arrow *)

\* C35: each arrow has at most one TacticalArrow record, and
\* player_associations[arrow id] is the player of that record: an arrow
\* associated again has its association replaced.
C35_OneRecordPerArrow ==
    LET tas == tactical_manager.tactical_arrows
    IN  /\ \A i, j \in DOMAIN tas : tas[i].arrow_id = tas[j].arrow_id => i = j
        /\ \A i \in DOMAIN tas :
               /\ tas[i].arrow_id \in DOMAIN tactical_manager.player_associations
               /\ tactical_manager.player_associations[tas[i].arrow_id] = tas[i].player_id

\* C36: the action type of each TacticalArrow is the one the style its arrow
\* has now stands for (solid pass, dotted run, zigzag dribble), also after
\* the style of the arrow was changed following the association.
C36_ActionTypeFollowsStyle ==
    \A i \in DOMAIN tactical_manager.tactical_arrows :
        LET ta == tactical_manager.tactical_arrows[i]
        IN  ta.action_type = ActionOfStyle(arrow_items[ta.arrow_id].arrow_style)

(***************************************************************************)
(* The removal of an arrow and its tactical association                    *)
(***************************************************************************)

\* the board in simulation use: arrows drawn, given a player and a receiver,
\* and removed by the popup's delete button, by delete_last_arrow, or by the
\* sweep of clear_selection after the shape was destroyed
NextRemoval ==
    \/ ArrowGesture
    \/ FromPlayerSelected
    \/ ToPlayerSelected
    \/ ArrowDeleteRequested
    \/ DeleteLastArrow
    \/ ArrowInvalidated
    \/ ArrowClearSelection

SpecRemoval == Init /\ [][NextRemoval]_vars

\* C37: every TacticalArrow record and every link of the possession chain
\* refers to an arrow the arrow manager holds: whichever way an arrow leaves
\* the manager's list, its tactical association leaves with it.
C37_AssociationsOfHeldArrows ==
    LET held == SeqToSet(annotation_manager.arrows)
    IN  /\ \A i \in DOMAIN tactical_manager.tactical_arrows :
               tactical_manager.tactical_arrows[i].arrow_id \in held
        /\ \A i \in DOMAIN tactical_manager.ball_possession_chain :
               tactical_manager.ball_possession_chain[i].arrow_id \in held

(***************************************************************************)
(* The calculation with an arrow of length zero                            *)
(***************************************************************************)

\* pass_progress = progress / pass_duration_ratio is computed in the frames
\* where the ball is placed, the first pass has a receiver and the progress
\* has not passed the ratio; the division raises ZeroDivisionError when the
\* ratio is zero, which nothing in the call catches
DividesByZero(tm, frame_offset, interval_seconds, current_frame, xy) ==
    LET passes == Passes(tm)
    IN  /\ IsSome(BallAt(current_frame, xy))
        /\ Truthy(The(BallAt(current_frame, xy)))
        /\ BallHolder(current_frame, xy) # NoPlayer
        /\ passes # <<>>
        /\ IsSome(passes[1].receiver_id)
        /\ PassDurationRatio(passes[1], interval_seconds).n = 0
        /\ FracLe(Progress(frame_offset, interval_seconds),
                  PassDurationRatio(passes[1], interval_seconds))

\* the call with its two ways out: it returns, or the division raises in the
\* first frame that divides by zero, and the manager keeps what the frames
\* before it and the player loop of that frame have appended
calculate_simulated_trajectories_or_raise(w, interval_seconds, current_frame, xy) ==
    LET tm0 == [w.tm EXCEPT !.simulated_player_positions = EmptyDict,
                            !.simulated_ball_positions = <<>>]
        total_frames == interval_seconds * FPS
        lists == PlayerLists(tm0, total_frames, interval_seconds, current_frame)
        raising == {f \in 0..(total_frames - 1) :
                        DividesByZero(tm0, f, interval_seconds, current_frame, xy)}
    IN  IF tm0.tactical_arrows # <<>> /\ raising # {}
        THEN LET f == CHOOSE g \in raising : \A h \in raising : g <= h
             IN  [w EXCEPT !.tm = [AfterPlayerLoop(tm0, lists, f) EXCEPT
                                      !.simulated_ball_positions =
                                          [i \in 1..f |->
                                              BallSample(tm0, lists, i - 1, interval_seconds,
                                                         current_frame, xy)]],
                           !.ret = "ZeroDivisionError"]
        ELSE [calculate_simulated_trajectories(w, interval_seconds, current_frame, xy)
                 EXCEPT !.ret = "None"]

\* where the second click of an arrow may fall: five metres from the first,
\* or on the point of the first click
ClickEnds == {GesturePoint(1), GesturePoint(0)}

\* an arrow drawn in simulation mode by two clicks, the second anywhere
ArrowClickedInSimulation ==
    \E style \in ArrowStyles, p \in ClickEnds, from_id \in Players,
       to_id \in Players \cup {NoPlayer}, f \in Frames :
        LET w1 == set_tool_mode(Arrow_manager_set_style(World, style), "arrow")
            w2 == ArrowToolLeftPress(w1, GesturePoint(0), from_id, to_id, f)
            w == ArrowToolLeftPress(w2, p, from_id, to_id, f)
        IN  /\ simulation_mode
            /\ NotSimulated
            /\ annotation_manager.selected_arrow = 0
            /\ Len(arrow_items) < ShapesPerManager
            /\ Len(w.tm.tactical_arrows) <= MaxTacticalArrows
            /\ Commit(w, Call("finish_arrow", "arrow", w.ret_item, "None",
                              p, from_id, to_id))

\* the calculation called on what was drawn; the call records the interval
\* as its item and the way it ended as its result
SimulateTrajectories ==
    \E interval_seconds \in Intervals, current_frame \in Frames :
        LET w == calculate_simulated_trajectories_or_raise(
                     World, interval_seconds, current_frame, xy_objects)
        IN  /\ simulation_mode
            /\ Commit(w, Call("calculate_simulated_trajectories", "None",
                              interval_seconds, "None", NoPos, "None", w.ret))

NextRaising ==
    \/ EnterSimulationMode
    \/ ArrowClickedInSimulation
    \/ SimulateTrajectories

SpecRaising == Init /\ [][NextRaising]_vars

\* C38: calculate_simulated_trajectories returns without raising, whatever
\* arrows were committed and associated and whatever the interval, also for
\* a pass with a receiver whose two points coincide.
C38_CalculationCompletes ==
    last.op = "calculate_simulated_trajectories" => last.ret # "ZeroDivisionError"

(***************************************************************************)
(* The possession chain and the passes with a receiver                     *)
(***************************************************************************)

\* arrows are drawn, given players and receivers, deleted from the popup,
\* and simulation mode is entered and left, which clears the tactical data
NextChain ==
    \/ StyleChosen
    \/ ArrowGesture
    \/ FromPlayerSelected
    \/ ToPlayerSelected
    \/ ArrowDeleteRequested
    \/ ToggleSimulationMode

SpecChain == Init /\ [][NextChain]_vars

\* the passes with a receiver among the records, by position
ResolvedPasses ==
    {i \in DOMAIN tactical_manager.tactical_arrows :
        /\ tactical_manager.tactical_arrows[i].action_type = "pass"
        /\ IsSome(tactical_manager.tactical_arrows[i].receiver_id)}

\* what the link of a record says: the arrow, the passer and the receiver
LinkOfRecord(ta) ==
    [from_player |-> ta.player_id, to_player |-> The(ta.receiver_id),
     arrow_id |-> ta.arrow_id]

\* C39: the possession chain holds one link for each pass record with a
\* receiver and no other link: each link value occurs in the chain as often
\* as among those records, with the record's arrow, player and receiver; and
\* the keys of pass_receivers are the arrows that have such a record.
C39_ChainMatchesResolvedPasses ==
    LET tas == tactical_manager.tactical_arrows
        chain == tactical_manager.ball_possession_chain
        links == {chain[i] : i \in DOMAIN chain}
                    \cup {LinkOfRecord(tas[i]) : i \in ResolvedPasses}
    IN  /\ \A l \in links :
               Cardinality({i \in DOMAIN chain : chain[i] = l})
                   = Cardinality({i \in ResolvedPasses : LinkOfRecord(tas[i]) = l})
        /\ DOMAIN tactical_manager.pass_receivers
               = {tas[i].arrow_id : i \in ResolvedPasses}

\* an arrow with a resolved pass was deleted from the popup while the pass
\* of another arrow keeps its link and its key
C39_Witness ==
    /\ last.op = "remove_arrow_association"
    /\ last.arg # NoPlayer
    /\ Len(tactical_manager.ball_possession_chain) = 1
    /\ ResolvedPasses # {}

=============================================================================
